---- MODULE Spec2Model ----
(***************************************************************************)
(* Reverse HTTP tunnel (relay / agent): frame codec, token authorisation,  *)
(* relay tunnel and request handler, agent tunnel.                         *)
(*                                                                         *)
(* Representation of Go values:                                            *)
(*  - []byte is a run-length sequence <<[b |-> byte, n |-> count], ...>>    *)
(*    in canonical form (no empty run, adjacent runs differ), so that two  *)
(*    byte strings are equal iff their representations are equal and a     *)
(*    64 KiB payload costs one run.                                        *)
(*  - uint32 / uint64 / int64 are little-endian sequences of 16-bit limbs  *)
(*    (2 resp. 4 limbs); arithmetic wraps by dropping the carry out of the *)
(*    top limb, int64 is two's complement.                                 *)
(*  - string is a sequence of one-character strings.                       *)
(***************************************************************************)
EXTENDS Integers, Sequences, FiniteSets, TLC

VARIABLES
    \* frame codec harness: last call, its argument and its result
    cOp, cHasFrame, cFrame, cBuf, cErr, cDec,
    \* clock (Unix seconds), the token in flight and where it came from
    clock, tok, tokKind, tokSecret, tokAt,
    \* last direct ValidateToken call: result, secret, clock
    verdict, vSecret, vNow,
    \* last upgrade request: HTTP status and the token it carried
    upStatus, upToken,
    \* for each link, what ValidateToken says of the upgrade that created it
    admitted,
    \* relay: pool, Get counter, stream id counter
    pool, poolCounter, streamCounter,
    \* relay tunnel per link: created, done latched, stream registry
    \* (stream id -> sink), read task running
    tExists, tDone, tStreams, rlAlive,
    \* sinks (chan *Frame, cap 64), one per request: queue and closed flag
    chans,
    \* transport per link: failed, messages relay->agent and agent->relay
    netFailed, r2a, a2r,
    \* relay read task per link: position in _read_loop, the frame and sink
    \* it holds between the registry lookup and the enqueue; the relay
    \* process has panicked
    rlPc, rlHeld, relayPanic,
    \* history: calls of Close per relay tunnel
    tCloseCalls,
    \* agent tunnel per link: connected, done latched, read task running,
    \* reassembly buffers (stream id -> bytes), request tasks
    \* (stream id -> frames still to write)
    aExists, aDone, aLoop, aStreams, aTasks,
    \* relay request handlers (ServeHTTP), one per public request
    hPc, hTunnel, hStream, hFrames, hChan, hData, hStatus, hBody, hErrLog,
    reqData,
    \* history: bytes written per stream id by the relay and by the agent,
    \* bytes handed to the agent's request tasks
    sentR, sentA, gotA,
    \* the backend behind the agent: which responses it gives
    backend,
    \* history: the relay read task of the link was parked on a full sink
    \* and was resumed by a receive
    rlResumed,
    \* pool harness: the pool's list and counter, and the Get calls made
    \* since the last Add (tunnel returned, and whether the counter wrapped
    \* in that call)
    pgTunnels, pgCounter, pgSeq,
    \* pool under concurrent callers: the RWMutex, each Get caller's position
    \* and the length it read, the Add or Remove holding the lock, the
    \* tunnels added so far, the outcomes of the Get calls
    pgLock, pgPc, pgWr, pgAdded, pgGot,
    \* one relay tunnel under concurrent callers of SendRequest, SendFrame
    \* and Close: done closed, the connection, the sync.Once, the stream
    \* registry, the stream ids given out, each caller's call
    clDone, clConn, clOnce, clStreams, clNext, clCalls,
    \* stream id harness: _stream_counter and the ids returned, with the
    \* caller of each
    idCounter, idSeq,
    \* keepalive: PING frames written per link by the relay's and by the
    \* agent's ping task
    rPings, aPings,
    \* agent supervisor (Agent.Run): position, configuration, the context
    \* is cancelled, the delay variable of _reconnect_loop, the tunnel of
    \* the current _run_tunnel, what Run returned
    svPc, svCfg, svCancelled, svDelay, svTunnel, svResult,
    \* history: the event of the last supervisor step, the waits used, the
    \* supervisor saw the cancellation
    svEvent, svWaits, svObserved,
    \* the results of _get_direct_ip and _get_proxied_ip in the pre-flight
    svFetch,
    \* the number of tunnels connected so far, and for the periodic check
    \* task of each: position, the single-slot error channel, done closed;
    \* history: calls of stop, errors posted, checks run, checks failed
    svRun, ckPc, ckErrCh, ckDone, ckStops, ckPosts, ckRuns, ckFails,
    \* the tunnels (by number) that are connected and not closed
    svOpen,
    \* history: the frames written to the link by the relay end of the
    \* agent-side runs
    fed,
    \* fragmentation harness: the call made (side, stream id, payload) and
    \* the frames it returned
    fgIn, fgOut

codecVars == <<cOp, cHasFrame, cFrame, cBuf, cErr, cDec>>
tokenVars == <<tok, tokKind, tokSecret, tokAt>>
authVars == <<clock, tok, tokKind, tokSecret, tokAt, verdict, vSecret, vNow,
              upStatus, upToken, admitted>>
poolVars == <<pool, tExists, tDone, tStreams, rlAlive>>
readVars == <<rlPc, rlHeld, relayPanic>>
relayVars == <<pool, poolCounter, streamCounter, tExists, tDone, tStreams,
               rlAlive, chans, readVars, tCloseCalls>>
netVars == <<netFailed, r2a, a2r>>
agentVars == <<aExists, aDone, aLoop, aStreams, aTasks>>
handlerVars == <<hPc, hTunnel, hStream, hFrames, hChan, hData, hStatus, hBody,
                 hErrLog,
                 reqData>>
histVars == <<sentR, sentA, gotA>>
tunnelVars == <<relayVars, netVars, agentVars, handlerVars, histVars>>
envVars == <<backend>>
linkHist == <<rlResumed>>
pmVars == <<pgLock, pgPc, pgWr, pgAdded, pgGot>>
pgVars == <<pgTunnels, pgCounter, pgSeq, pmVars>>
idVars == <<idCounter, idSeq>>
kaVars == <<rPings, aPings>>
svVars == <<svPc, svCfg, svCancelled, svDelay, svTunnel, svResult, svEvent,
           svWaits, svObserved, svFetch,
           svRun, ckPc, ckErrCh, ckDone, ckStops, ckPosts, ckRuns, ckFails,
           svOpen>>
svCore == <<svPc, svCfg, svCancelled, svDelay, svTunnel, svResult, svEvent,
            svWaits, svObserved, svFetch>>
ckVars == <<svRun, ckPc, ckErrCh, ckDone, ckStops, ckPosts, ckRuns, ckFails>>
fdVars == <<fed>>
fgVars == <<fgIn, fgOut>>
clVars == <<clDone, clConn, clOnce, clStreams, clNext, clCalls>>
otherVars == <<pgVars, idVars, kaVars, svVars, fdVars, fgVars, clVars>>
extraVars == <<envVars, linkHist, otherVars>>
vars == <<codecVars, authVars, tunnelVars, extraVars>>

-----------------------------------------------------------------------------
(* Byte strings ([]byte)                                                   *)

\* 16-bit limb and 8-bit byte radix
Limb == 2^16
Byte == 2^8

RECURSIVE BLen(_)
\* len(b)
BLen(s) == IF s = <<>> THEN 0 ELSE s[1].n + BLen(Tail(s))

\* append(a, b...)
BCat(a, b) ==
    IF a = <<>> THEN b
    ELSE IF b = <<>> THEN a
    ELSE IF a[Len(a)].b = b[1].b
         THEN SubSeq(a, 1, Len(a) - 1)
              \o <<[b |-> b[1].b, n |-> a[Len(a)].n + b[1].n]>>
              \o Tail(b)
         ELSE a \o b

RECURSIVE BTake(_, _)
\* b[:k]
BTake(s, k) ==
    IF k <= 0 \/ s = <<>> THEN <<>>
    ELSE IF s[1].n <= k THEN <<s[1]>> \o BTake(Tail(s), k - s[1].n)
    ELSE <<[b |-> s[1].b, n |-> k]>>

RECURSIVE BDrop(_, _)
\* b[k:]
BDrop(s, k) ==
    IF k <= 0 \/ s = <<>> THEN s
    ELSE IF s[1].n <= k THEN BDrop(Tail(s), k - s[1].n)
    ELSE <<[b |-> s[1].b, n |-> s[1].n - k]>> \o Tail(s)

\* b[lo:hi]
BSlice(s, lo, hi) == BTake(BDrop(s, lo), hi - lo)

RECURSIVE BAt(_, _)
\* b[i], 0 <= i < len(b)
BAt(s, i) == IF i < s[1].n THEN s[1].b ELSE BAt(Tail(s), i - s[1].n)

RECURSIVE BOf(_)
\* []byte{q[1], q[2], ...}
BOf(q) == IF q = <<>> THEN <<>>
          ELSE BCat(<<[b |-> q[1], n |-> 1]>>, BOf(Tail(q)))

\* make([]byte, n) filled with byte v
BFill(v, n) == IF n = 0 THEN <<>> ELSE <<[b |-> v, n |-> n]>>

-----------------------------------------------------------------------------
(* Wire protocol: frame types, header, marshal / unmarshal                 *)

TypeHTTPRequest == 1
TypeHTTPResponse == 2
TypeBodyChunk == 3
TypeStreamClose == 4
TypePing == 5
TypePong == 6
TypeAuthChallenge == 7
TypeAuthResponse == 8

HeaderSize == 9
MaxPayloadSize == 65536

\* uint32(n) for a Go int 0 <= n < 2^31
U32OfInt(n) == <<n % Limb, n \div Limb>>

\* w > n for a uint32 w and a Go int 0 <= n < 2^31
U32Gt(w, n) ==
    \/ w[2] > n \div Limb
    \/ w[2] = n \div Limb /\ w[1] > n % Limb

\* int(w) for a uint32 w < 2^31
IntOfU32(w) == w[2] * Limb + w[1]

\* binary.BigEndian.PutUint32
PutUint32(w) == <<w[2] \div Byte, w[2] % Byte, w[1] \div Byte, w[1] % Byte>>

\* binary.BigEndian.Uint32(buf[at:at+4])
Uint32(buf, at) ==
    <<BAt(buf, at + 2) * Byte + BAt(buf, at + 3),
      BAt(buf, at) * Byte + BAt(buf, at + 1)>>

NoFrame == [Type |-> 0, StreamID |-> <<0, 0>>, Payload |-> <<>>]

\* the 9 header bytes: [type:1][stream_id:4][payload_len:4]
_encode_header(f) ==
    BOf(<<f.Type>> \o PutUint32(f.StreamID)
                   \o PutUint32(U32OfInt(BLen(f.Payload))))

\* payloadLen > MaxPayloadSize in _decode_header
PayloadTooLarge(payloadLen) == U32Gt(payloadLen, MaxPayloadSize)

_decode_header(buf) ==
    IF BLen(buf) < HeaderSize
    THEN [err |-> TRUE, msgType |-> 0, streamID |-> <<0, 0>>,
          payloadLen |-> <<0, 0>>]
    ELSE LET payloadLen == Uint32(buf, 5) IN
         IF PayloadTooLarge(payloadLen)
         THEN [err |-> TRUE, msgType |-> 0, streamID |-> <<0, 0>>,
               payloadLen |-> <<0, 0>>]
         ELSE [err |-> FALSE, msgType |-> BAt(buf, 0),
               streamID |-> Uint32(buf, 1), payloadLen |-> payloadLen]

MarshalFrame_NoLimit(f) ==
    [err |-> FALSE, data |-> BCat(_encode_header(f), f.Payload)]

MarshalFrame(f) ==
    IF BLen(f.Payload) > MaxPayloadSize
    THEN [err |-> TRUE, data |-> <<>>]
    ELSE [err |-> FALSE, data |-> BCat(_encode_header(f), f.Payload)]

UnmarshalFrame_LittleEndian(data) ==
    LET h == _decode_header(data) IN
    IF h.err THEN [err |-> TRUE, frame |-> NoFrame]
    ELSE LET totalLen == HeaderSize + IntOfU32(h.payloadLen) IN
         IF BLen(data) < totalLen THEN [err |-> TRUE, frame |-> NoFrame]
         ELSE [err |-> FALSE,
               frame |-> [Type |-> h.msgType,
                          StreamID |-> <<h.streamID[2], h.streamID[1]>>,
                          Payload |-> BSlice(data, HeaderSize, totalLen)]]

UnmarshalFrame(data) ==
    LET h == _decode_header(data) IN
    IF h.err THEN [err |-> TRUE, frame |-> NoFrame]
    ELSE LET totalLen == HeaderSize + IntOfU32(h.payloadLen) IN
         IF BLen(data) < totalLen THEN [err |-> TRUE, frame |-> NoFrame]
         ELSE [err |-> FALSE,
               frame |-> [Type |-> h.msgType, StreamID |-> h.streamID,
                          Payload |-> BSlice(data, HeaderSize, totalLen)]]

\* a websocket message that is not a binary message
TextMessage == <<[b |-> 0, n |-> 0]>>

\* Codec.ReadFrame on a message that arrived
ReadFrame(msg) ==
    IF msg = TextMessage THEN [err |-> TRUE, frame |-> NoFrame]
    ELSE UnmarshalFrame(msg)

-----------------------------------------------------------------------------
(* Machine integers: little-endian sequences of 16-bit limbs               *)

RECURSIVE LimbMulAdd(_, _, _)
\* a * k + c on limbs, the carry out of the top limb dropped (k < 2^15)
LimbMulAdd(a, k, c) ==
    IF a = <<>> THEN <<>>
    ELSE LET p == a[1] * k + c IN
         <<p % Limb>> \o LimbMulAdd(Tail(a), k, p \div Limb)

RECURSIVE LimbAdd(_, _, _)
\* a + b + c on limbs of equal length, the carry out of the top limb dropped
LimbAdd(a, b, c) ==
    IF a = <<>> THEN <<>>
    ELSE LET p == a[1] + b[1] + c IN
         <<p % Limb>> \o LimbAdd(Tail(a), Tail(b), p \div Limb)

RECURSIVE LimbLt(_, _)
\* a < b, unsigned, limbs of equal length
LimbLt(a, b) ==
    IF a = <<>> THEN FALSE
    ELSE LET n == Len(a) IN
         \/ a[n] < b[n]
         \/ a[n] = b[n] /\ LimbLt(SubSeq(a, 1, n - 1), SubSeq(b, 1, n - 1))

\* int64(n) for a Go int 0 <= n < 2^31
I64OfNat(n) == <<n % Limb, n \div Limb, 0, 0>>

\* -a in int64 (two's complement)
I64Neg(a) == LimbAdd([i \in 1..4 |-> Limb - 1 - a[i]], <<0, 0, 0, 0>>, 1)

\* int64(n) for a Go int |n| < 2^31
I64OfInt(n) == IF n >= 0 THEN I64OfNat(n) ELSE I64Neg(I64OfNat(0 - n))

\* a - b in int64, wrapping
I64Sub(a, b) == LimbAdd(a, I64Neg(b), 0)

I64IsNeg(a) == a[4] >= 2^15

\* a > b, signed
I64Gt(a, b) ==
    IF I64IsNeg(a) # I64IsNeg(b) THEN I64IsNeg(b) ELSE LimbLt(b, a)

MinInt64 == <<0, 0, 0, 2^15>>

\* number of significant bits of a limb
BitLen(n) == CHOOSE k \in 0..16 : n < 2^k /\ (k = 0 \/ 2^(k - 1) <= n)

\* number of significant bits of an unsigned 64-bit value
BitLen64(m) ==
    IF m[4] # 0 THEN 48 + BitLen(m[4])
    ELSE IF m[3] # 0 THEN 32 + BitLen(m[3])
    ELSE IF m[2] # 0 THEN 16 + BitLen(m[2])
    ELSE BitLen(m[1])

\* int64(math.Abs(float64(x))): the magnitude of x rounded to the 53-bit
\* significand of a float64 (round to nearest, ties to even).  A result of
\* 2^63 does not fit int64 (the conversion is implementation-defined); it
\* is returned as the bit pattern of 2^63 and the inputs of this model keep
\* away from it.
AbsViaFloat64(x) ==
    LET m  == IF I64IsNeg(x) THEN I64Neg(x) ELSE x
        sh == IF BitLen64(m) > 53 THEN BitLen64(m) - 53 ELSE 0
    IN  IF sh = 0 THEN m
        ELSE LET low  == m[1] % 2^sh
                 keep == m[1] - low
                 half == 2^(sh - 1)
                 up   == \/ low > half
                         \/ low = half /\ (m[1] \div 2^sh) % 2 = 1
                 t    == <<keep, m[2], m[3], m[4]>>
             IN  IF up THEN LimbAdd(t, <<2^sh % Limb, 0, 0, 0>>, 0) ELSE t

\* d * time.Second: int64 multiplication by 10^9 nanoseconds, wrapping
TimesSecond(d) == LimbMulAdd(LimbMulAdd(LimbMulAdd(d, 1000, 0), 1000, 0), 1000, 0)

-----------------------------------------------------------------------------
(* Strings and strconv                                                     *)

Digits == <<"0", "1", "2", "3", "4", "5", "6", "7", "8", "9">>
IsDigit(c) == \E i \in 1..10 : Digits[i] = c
DigitVal(c) == (CHOOSE i \in 1..10 : Digits[i] = c) - 1

RECURSIVE FormatNat(_)
FormatNat(n) ==
    IF n < 10 THEN <<Digits[n + 1]>>
    ELSE FormatNat(n \div 10) \o <<Digits[(n % 10) + 1]>>

\* strconv.FormatInt(n, 10)
FormatInt(n) == IF n < 0 THEN <<"-">> \o FormatNat(0 - n) ELSE FormatNat(n)

RECURSIVE ParseUintFrom(_, _)
\* strconv.ParseUint(s, 10, 64) continued from the 5-limb accumulator acc:
\* a non-digit is a syntax error, a value of 2^64 or more a range error
ParseUintFrom(s, acc) ==
    IF s = <<>> THEN [ok |-> TRUE, un |-> SubSeq(acc, 1, 4)]
    ELSE IF ~IsDigit(s[1]) THEN [ok |-> FALSE, un |-> <<0, 0, 0, 0>>]
    ELSE LET n1 == LimbMulAdd(acc, 10, DigitVal(s[1])) IN
         IF n1[5] # 0 THEN [ok |-> FALSE, un |-> <<0, 0, 0, 0>>]
         ELSE ParseUintFrom(Tail(s), n1)

\* strconv.ParseInt(s, 10, 64)
ParseInt(s) ==
    IF s = <<>> THEN [ok |-> FALSE, i |-> <<0, 0, 0, 0>>]
    ELSE LET neg  == s[1] = "-"
             rest == IF s[1] \in {"+", "-"} THEN Tail(s) ELSE s
             r    == IF rest = <<>> THEN [ok |-> FALSE, un |-> <<0, 0, 0, 0>>]
                     ELSE ParseUintFrom(rest, <<0, 0, 0, 0, 0>>)
         IN  IF ~r.ok THEN [ok |-> FALSE, i |-> <<0, 0, 0, 0>>]
             ELSE IF ~neg /\ ~LimbLt(r.un, MinInt64)
                  THEN [ok |-> FALSE, i |-> <<0, 0, 0, 0>>]
             ELSE IF neg /\ LimbLt(MinInt64, r.un)
                  THEN [ok |-> FALSE, i |-> <<0, 0, 0, 0>>]
             ELSE [ok |-> TRUE, i |-> IF neg THEN I64Neg(r.un) ELSE r.un]

RECURSIVE IndexOf(_, _, _)
\* strings.Index(s, c) counted from position at; 0 when c does not occur
IndexOf(s, c, at) ==
    IF at > Len(s) THEN 0
    ELSE IF s[at] = c THEN at
    ELSE IndexOf(s, c, at + 1)

\* strings.SplitN(s, ":", 2)
SplitN2(s) ==
    LET i == IndexOf(s, ":", 1) IN
    IF i = 0 THEN <<s>>
    ELSE <<SubSeq(s, 1, i - 1), SubSeq(s, i + 1, Len(s))>>

-----------------------------------------------------------------------------
(* Token authorisation                                                     *)

HexDigits == <<"0", "1", "2", "3", "4", "5", "6", "7", "8", "9",
               "a", "b", "c", "d", "e", "f">>

\* the characters that occur in secrets and messages
Alphabet == Digits \o <<"+", "-", ":", "a", "b", "c", "d", "e", "f",
                        "k", "s", "x", "n", "o", "t">>

CharCode(c) == CHOOSE i \in 1..Len(Alphabet) : Alphabet[i] = c

RECURSIVE HexEncode(_)
\* hex.EncodeToString: two hex digits per character code
HexEncode(s) ==
    IF s = <<>> THEN <<>>
    ELSE <<HexDigits[(CharCode(s[1]) \div 16) + 1],
           HexDigits[(CharCode(s[1]) % 16) + 1]>> \o HexEncode(Tail(s))

_compute_hmac_IgnoresKey(secret, message) == <<"f", "f">> \o HexEncode(message)

\* HMAC-SHA256 is taken as an injective function of (secret, message): the
\* hex digest is modelled by the hex encoding of the pair
_compute_hmac(secret, message) ==
    HexEncode(secret) \o <<"f", "f">> \o HexEncode(message)

_token_validity_seconds == 300
\* 5 * time.Minute, in nanoseconds
_token_validity == TimesSecond(I64OfNat(_token_validity_seconds))

GenerateToken_StaleClock(secret, now) ==
    _compute_hmac(secret, FormatInt(now - 1)) \o <<":">> \o FormatInt(now)

\* GenerateToken at Unix time now
GenerateToken(secret, now) ==
    LET ts == FormatInt(now) IN _compute_hmac(secret, ts) \o <<":">> \o ts

\* diff > _token_validity, diff the wrapped int64 duration
Expired(now, ts) ==
    I64Gt(TimesSecond(AbsViaFloat64(I64Sub(I64OfNat(now), ts))), _token_validity)

ValidateToken_IgnoresExtra(secret, token, now) ==
    LET parts == SplitN2(token) IN
    IF Len(parts) # 2 THEN "malformed"
    ELSE LET mac   == parts[1]
             tsStr == SplitN2(parts[2])[1]
             t     == ParseInt(tsStr) IN
         IF ~t.ok THEN "timestamp"
         ELSE IF Expired(now, t.i) THEN "expired"
         ELSE IF mac # _compute_hmac(secret, tsStr) THEN "signature"
         ELSE "ok"

\* ValidateToken at Unix time now: "ok" for nil, else the kind of error
ValidateToken(secret, token, now) ==
    LET parts == SplitN2(token) IN
    IF Len(parts) # 2 THEN "malformed"
    ELSE LET mac   == parts[1]
             tsStr == parts[2]
             t     == ParseInt(tsStr) IN
         IF ~t.ok THEN "timestamp"
         ELSE IF Expired(now, t.i) THEN "expired"
         ELSE IF mac # _compute_hmac(secret, tsStr) THEN "signature"
         ELSE "ok"

-----------------------------------------------------------------------------
(* Codec harness: frames and buffers handed to MarshalFrame/UnmarshalFrame *)

FrameTypes == TypeHTTPRequest .. TypeAuthResponse

StreamIdInputs ==
    {<<0, 0>>, <<1, 0>>, <<42, 0>>, <<100, 0>>, <<65535, 0>>, <<0, 1>>,
     <<4660, 22136>>, <<65535, 32767>>, <<0, 32768>>, <<65535, 65535>>}

PayloadInputs ==
    {<<>>,
     BFill(7, 1),
     BOf(<<104, 101, 108, 108, 111>>),
     BCat(BFill(0, 3), BFill(255, 2)),
     BFill(1, MaxPayloadSize - 1),
     BCat(BFill(9, MaxPayloadSize - 1), BFill(0, 1)),
     BCat(BFill(3, 1), BFill(4, MaxPayloadSize)),
     BFill(5, MaxPayloadSize + 1),
     BFill(6, 2 * MaxPayloadSize)}

FrameInputs ==
    [Type : FrameTypes, StreamID : {<<42, 0>>, <<0, 32768>>},
     Payload : PayloadInputs]
    \cup [Type : {TypeHTTPRequest, TypePing}, StreamID : StreamIdInputs,
          Payload : {<<>>, BOf(<<104, 101, 108, 108, 111>>)}]

\* buffers as a peer could send them: a header that declares a payload
\* length, followed by any number of bytes
DeclaredLenInputs ==
    {<<0, 0>>, <<1, 0>>, <<5, 0>>, <<65535, 0>>, <<0, 1>>, <<1, 1>>,
     <<0, 2>>, <<0, 32768>>, <<65535, 65535>>}

ActualLenInputs == {0, 1, 4, 5, 6, MaxPayloadSize - 1, MaxPayloadSize,
                    MaxPayloadSize + 1}

BufferInputs ==
    {BCat(BOf(<<t>> \o PutUint32(<<7, 0>>) \o PutUint32(d)), BFill(8, a)) :
        t \in {TypeHTTPResponse}, d \in DeclaredLenInputs,
        a \in ActualLenInputs}
    \cup {BOf(<<1, 2>>), <<>>}

TruncateInputs == {0, 1, 2, 8, 9, 10, 13}

CodecMarshal ==
    /\ \E f \in FrameInputs :
        LET r == MarshalFrame(f) IN
        /\ cFrame' = f
        /\ cBuf' = r.data
        /\ cErr' = r.err
    /\ cHasFrame' = TRUE
    /\ cOp' = "marshal"
    /\ cDec' = [err |-> FALSE, frame |-> NoFrame]
    /\ UNCHANGED <<extraVars, authVars, tunnelVars>>

CodecReceive ==
    /\ \E b \in BufferInputs : cBuf' = b
    /\ cHasFrame' = FALSE
    /\ cFrame' = NoFrame
    /\ cErr' = FALSE
    /\ cOp' = "receive"
    /\ cDec' = [err |-> FALSE, frame |-> NoFrame]
    /\ UNCHANGED <<extraVars, authVars, tunnelVars>>

\* the transport hands over only the first k bytes of the buffer
CodecTruncate ==
    /\ cOp \in {"marshal", "receive"}
    /\ ~cErr
    /\ \E k \in TruncateInputs :
        /\ k < BLen(cBuf)
        /\ cBuf' = BTake(cBuf, k)
    /\ cHasFrame' = FALSE
    /\ cOp' = "receive"
    /\ UNCHANGED <<cFrame, cErr, cDec>>
    /\ UNCHANGED <<extraVars, authVars, tunnelVars>>

CodecUnmarshal ==
    /\ cOp \in {"marshal", "receive"}
    /\ ~cErr
    /\ cDec' = UnmarshalFrame(cBuf)
    /\ cOp' = "unmarshal"
    /\ UNCHANGED <<cHasFrame, cFrame, cBuf, cErr>>
    /\ UNCHANGED <<extraVars, authVars, tunnelVars>>

InitCodec ==
    /\ cOp = "idle"
    /\ cHasFrame = FALSE
    /\ cFrame = NoFrame
    /\ cBuf = <<>>
    /\ cErr = FALSE
    /\ cDec = [err |-> FALSE, frame |-> NoFrame]

NextCodec ==
    \/ CodecMarshal
    \/ CodecReceive
    \/ CodecTruncate
    \/ CodecUnmarshal

-----------------------------------------------------------------------------
(* Relay: pool and tunnels                                                 *)

MaxLinks == 2
Links == 1..MaxLinks

MaxRequests == 2
Requests == 1..MaxRequests

\* capacity of a response sink: make(chan *protocol.Frame, 64)
SinkCap == 64

\* Go maps
EmptyMap == [k \in {} |-> 0]
MapPut(m, k, v) == [x \in DOMAIN m \cup {k} |-> IF x = k THEN v ELSE m[x]]
MapDel(m, k) == [x \in DOMAIN m \ {k} |-> m[x]]

\* what the read task holds outside the dispatch of a response frame
NoHeld == [frame |-> [Type |-> 0, StreamID |-> <<0, 0>>, Payload |-> <<>>],
           ch |-> 0]

\* the read task after ch <- frame: _remove_stream for a STREAM_CLOSE, else
\* the next ReadFrame
AfterEnqueue_StaysParked(frame) == "blocked"

\* _read_loop after the select sent the frame: _remove_stream for a
\* STREAM_CLOSE, then the next ReadFrame
AfterEnqueue(frame) == IF frame.Type = TypeStreamClose THEN "remove" ELSE "read"

\* close(ch)
CloseSink(c) == [c EXCEPT !.closed = TRUE, !.closes = @ + 1]

\* NewTunnel: a fresh tunnel object for link l, its read task started
NewTunnel(l) ==
    /\ tExists' = [tExists EXCEPT ![l] = TRUE]
    /\ tDone' = [tDone EXCEPT ![l] = FALSE]
    /\ tStreams' = [tStreams EXCEPT ![l] = EmptyMap]
    /\ rlAlive' = [rlAlive EXCEPT ![l] = TRUE]

\* Pool.Add
PoolAdd(l) == pool' = Append(pool, l)

InitTunnel ==
    /\ pool = <<>>
    /\ poolCounter = <<0, 0, 0, 0>>
    /\ streamCounter = <<0, 0, 0, 0>>
    /\ tExists = [l \in Links |-> FALSE]
    /\ tDone = [l \in Links |-> FALSE]
    /\ tStreams = [l \in Links |-> EmptyMap]
    /\ rlAlive = [l \in Links |-> FALSE]
    /\ chans = [r \in Requests |-> [q |-> <<>>, closed |-> FALSE, closes |-> 0]]
    /\ rlPc = [l \in Links |-> "read"]
    /\ rlHeld = [l \in Links |-> NoHeld]
    /\ relayPanic = FALSE
    /\ tCloseCalls = [l \in Links |-> 0]
    /\ netFailed = [l \in Links |-> FALSE]
    /\ r2a = [l \in Links |-> <<>>]
    /\ a2r = [l \in Links |-> <<>>]
    /\ aExists = [l \in Links |-> FALSE]
    /\ aDone = [l \in Links |-> FALSE]
    /\ aLoop = [l \in Links |-> FALSE]
    /\ aStreams = [l \in Links |-> EmptyMap]
    /\ aTasks = [l \in Links |-> EmptyMap]
    /\ hPc = [r \in Requests |-> "idle"]
    /\ hTunnel = [r \in Requests |-> 0]
    /\ hStream = [r \in Requests |-> <<0, 0>>]
    /\ hFrames = [r \in Requests |-> <<>>]
    /\ hChan = [r \in Requests |-> 0]
    /\ hData = [r \in Requests |-> <<>>]
    /\ hStatus = [r \in Requests |-> 0]
    /\ hBody = [r \in Requests |-> ""]
    /\ hErrLog = [r \in Requests |-> ""]
    /\ reqData = [r \in Requests |-> <<>>]
    /\ sentR = EmptyMap
    /\ sentA = EmptyMap
    /\ gotA = EmptyMap
    /\ backend = "echo"
    /\ rlResumed = [l \in Links |-> FALSE]

-----------------------------------------------------------------------------
(* Token harness: agents generate tokens, anyone may craft one, the relay  *)
(* validates them directly or in an upgrade request                        *)

SharedSecret == <<"s", "1">>
Secrets == {<<"s", "1">>, <<"s", "2">>, <<"s", "1", "0">>}

Clock0 == 1700000000
MaxElapsed == 302
TickSteps == {150, 151}

\* agent clock minus relay clock, seconds
SkewInputs == {0 - 301, 0 - 300, 0, 300, 301}

\* timestamps as text, relative to Clock0
TsInputs ==
    {FormatInt(Clock0 + k) : k \in {0 - 301, 0 - 300, 0, 300, 301}}
    \cup {<<"+">> \o FormatInt(Clock0), <<"0", "0">> \o FormatInt(Clock0),
          <<>>, <<"-">>, <<"0">>, <<"1", "7", "a">>,
          <<"1", "0", "9", "2", "3", "3", "7", "2", "4", "0", "0">>,
          <<"-", "7", "5", "2", "3", "3", "7", "2", "4", "0", "0">>,
          <<"9", "2", "2", "3", "3", "7", "2", "0", "3", "6",
            "8", "5", "4", "7", "7", "5", "8", "0", "7">>,
          <<"9", "2", "2", "3", "3", "7", "2", "0", "3", "6",
            "8", "5", "4", "7", "7", "5", "8", "0", "8">>,
          <<"-", "9", "2", "2", "3", "3", "7", "2", "0", "3", "6",
            "8", "5", "4", "7", "7", "5", "8", "0", "8">>}

MacInputs(ts) ==
    {_compute_hmac(s, ts) : s \in Secrets}
    \cup {<<>>, <<"a", "b", "c">>, _compute_hmac(SharedSecret, FormatInt(Clock0))}

CraftedTokens ==
    \* one colon
    UNION {{m \o <<":">> \o ts : m \in MacInputs(ts)} : ts \in TsInputs}
    \* no colon
    \cup {<<>>, <<"n", "o", "t", "-", "a", "-", "t", "o", "k", "e", "n">>,
          FormatInt(Clock0), _compute_hmac(SharedSecret, FormatInt(Clock0))}
    \* more than one colon
    \cup {GenerateToken(SharedSecret, Clock0) \o <<":">>,
          GenerateToken(SharedSecret, Clock0) \o <<":", "0">>,
          <<":">> \o GenerateToken(SharedSecret, Clock0),
          _compute_hmac(SharedSecret, FormatInt(Clock0)) \o <<":", ":">>
              \o FormatInt(Clock0),
          <<":", ":">>}

\* the records of the last calls are dropped when the token or clock changes
ForgetCalls ==
    /\ verdict' = "none"
    /\ vSecret' = <<>>
    /\ vNow' = 0
    /\ upStatus' = 0
    /\ upToken' = <<>>

AuthTick ==
    /\ \E d \in TickSteps :
        /\ clock + d <= Clock0 + MaxElapsed
        /\ clock' = clock + d
    /\ ForgetCalls
    /\ UNCHANGED <<tokenVars, admitted>>
    /\ UNCHANGED <<extraVars, codecVars, tunnelVars>>

\* an agent (ConnectTunnel) generates a token on its own clock
AuthGenerate ==
    /\ \E s \in Secrets, skew \in SkewInputs :
        /\ tok' = GenerateToken(s, clock + skew)
        /\ tokSecret' = s
        /\ tokAt' = clock + skew
    /\ tokKind' = "generated"
    /\ ForgetCalls
    /\ UNCHANGED <<clock, admitted>>
    /\ UNCHANGED <<extraVars, codecVars, tunnelVars>>

AuthCraft ==
    /\ \E t \in CraftedTokens : tok' = t
    /\ tokKind' = "crafted"
    /\ tokSecret' = <<>>
    /\ tokAt' = 0
    /\ ForgetCalls
    /\ UNCHANGED <<clock, admitted>>
    /\ UNCHANGED <<extraVars, codecVars, tunnelVars>>

\* a direct call ValidateToken(s, tok)
AuthValidate ==
    /\ tokKind # "none"
    /\ \E s \in Secrets :
        /\ verdict' = ValidateToken(s, tok, clock)
        /\ vSecret' = s
    /\ vNow' = clock
    /\ UNCHANGED <<clock, tokenVars, upStatus, upToken, admitted>>
    /\ UNCHANGED <<extraVars, codecVars, tunnelVars>>

AuthFails_OnlyEmpty(secret, token, at) == token = <<>>

\* err != nil of ValidateToken in _handle_tunnel
AuthFails(secret, token, at) == ValidateToken(secret, token, at) # "ok"

\* Server._handle_tunnel: an upgrade request carrying the token in the
\* query parameter or in the X-Auth-Token header
HandleTunnel ==
    /\ tokKind # "none"
    /\ \E query \in {<<>>, tok}, header \in {<<>>, tok} :
        LET token == IF query = <<>> THEN header ELSE query IN
        /\ upToken' = token
        /\ IF AuthFails(SharedSecret, token, clock)
           THEN /\ upStatus' = 401
                /\ UNCHANGED <<admitted, poolVars>>
           ELSE \/ \* the websocket upgrade fails
                   /\ upStatus' = 400
                   /\ UNCHANGED <<admitted, poolVars>>
                \/ \E l \in Links :
                    /\ ~tExists[l]
                    /\ \A k \in Links : k < l => tExists[k]
                    /\ upStatus' = 101
                    /\ NewTunnel(l)
                    /\ PoolAdd(l)
                    /\ admitted' = [admitted EXCEPT
                          ![l] = ValidateToken(SharedSecret, token, clock)]
    /\ UNCHANGED <<clock, tokenVars, verdict, vSecret, vNow>>
    /\ UNCHANGED <<poolCounter, streamCounter, chans, readVars, tCloseCalls>>
    /\ UNCHANGED <<extraVars, codecVars, netVars, agentVars, handlerVars, histVars>>

InitAuth ==
    /\ clock = Clock0
    /\ tok = <<>>
    /\ tokKind = "none"
    /\ tokSecret = <<>>
    /\ tokAt = 0
    /\ verdict = "none"
    /\ vSecret = <<>>
    /\ vNow = 0
    /\ upStatus = 0
    /\ upToken = <<>>
    /\ admitted = [l \in Links |-> "none"]

NextAuth ==
    \/ AuthTick
    \/ AuthGenerate
    \/ AuthCraft
    \/ AuthValidate
    \/ HandleTunnel

-----------------------------------------------------------------------------
(* Relay and agent tunnels over one link                                   *)

\* the agents that connect a tunnel; agent a uses link a
Agents == {1}

\* the transport of link l no longer carries messages: one side closed it
\* the network failed or the relay process died
ConnDown(l) == tDone[l] \/ aDone[l] \/ netFailed[l] \/ relayPanic

\* Codec.WriteFrame returns nil
WriteOk(l, f) == ~MarshalFrame(f).err /\ ~ConnDown(l)

\* protocol.NextStreamID on the counter value c: new counter and id
NextStreamID_NoAdd(c) == [counter |-> c, id |-> <<c[1], c[2]>>]

NextStreamID(c) ==
    LET n == LimbAdd(c, <<1, 0, 0, 0>>, 0) IN [counter |-> n, id |-> <<n[1], n[2]>>]

RECURSIVE LimbModFrom(_, _, _, _)
\* the remainder of (r, a[k], ..., a[1]) by n, top limb first
LimbModFrom(a, k, r, n) ==
    IF k = 0 THEN r ELSE LimbModFrom(a, k - 1, (r * Limb + a[k]) % n, n)

\* a % n for a uint64 a on limbs and 0 < n < 2^15
LimbMod(a, n) == LimbModFrom(a, Len(a), 0, n)

PoolGet_First(tunnels, counter) == tunnels[1]

\* Pool.Get on a non-empty list: tunnels[counter.Add(1) % uint64(len)]
PoolGet(tunnels, counter) ==
    tunnels[LimbMod(LimbAdd(counter, <<1, 0, 0, 0>>, 0), Len(tunnels)) + 1]

RECURSIVE ChunkLoop(_, _, _, _)
\* the loop of _chunk_payload from offset i
ChunkLoop(streamID, firstType, payload, i) ==
    IF i >= BLen(payload) THEN <<>>
    ELSE LET end == IF i + MaxPayloadSize > BLen(payload)
                    THEN BLen(payload) ELSE i + MaxPayloadSize
         IN  <<[Type |-> IF i = 0 THEN firstType ELSE TypeBodyChunk,
                StreamID |-> streamID,
                Payload |-> BSlice(payload, i, end)]>>
             \o ChunkLoop(streamID, firstType, payload, i + MaxPayloadSize)

_chunk_payload_NoSplit(streamID, firstType, payload) ==
    <<[Type |-> firstType, StreamID |-> streamID, Payload |-> payload]>>

_chunk_payload(streamID, firstType, payload) ==
    IF BLen(payload) <= MaxPayloadSize
    THEN <<[Type |-> firstType, StreamID |-> streamID, Payload |-> payload]>>
    ELSE ChunkLoop(streamID, firstType, payload, 0)

RECURSIVE ResponseLoop(_, _, _)
\* the loop of _response_frames from offset i
ResponseLoop(streamID, data, i) ==
    IF i >= BLen(data) THEN <<>>
    ELSE LET end == IF i + MaxPayloadSize > BLen(data)
                    THEN BLen(data) ELSE i + MaxPayloadSize
         IN  <<[Type |-> IF i = 0 THEN TypeHTTPResponse ELSE TypeBodyChunk,
                StreamID |-> streamID,
                Payload |-> BSlice(data, i, end)]>>
             \o ResponseLoop(streamID, data, i + MaxPayloadSize)

_response_frames(streamID, data) ==
    IF BLen(data) <= MaxPayloadSize
    THEN <<[Type |-> TypeHTTPResponse, StreamID |-> streamID,
            Payload |-> data]>>
    ELSE ResponseLoop(streamID, data, 0)

StreamCloseFrame(streamID) ==
    [Type |-> TypeStreamClose, StreamID |-> streamID, Payload |-> <<>>]

\* JSON text is a byte string in braces: '{' ... '}'
OpenBrace == 123
CloseBrace == 125
ValidJSON(data) ==
    /\ BLen(data) >= 2
    /\ BAt(data, 0) = OpenBrace
    /\ BAt(data, BLen(data) - 1) = CloseBrace

\* the serialised request of public request r: one frame or two
RequestInputs(r) ==
    {BCat(BFill(OpenBrace, 1), BCat(BFill(r, 3), BFill(CloseBrace, 1))),
     BCat(BFill(OpenBrace, 1),
          BCat(BFill(r, MaxPayloadSize), BFill(CloseBrace, 1)))}

\* RequestHandler.HandleRequest against a backend that echoes the request
\* in its response body
HandleRequest(data) ==
    IF ~ValidJSON(data) THEN [err |-> TRUE, data |-> <<>>]
    ELSE [err |-> FALSE,
          data |-> BCat(BFill(OpenBrace, 1),
                        BCat(BSlice(data, 1, BLen(data) - 1),
                             BFill(CloseBrace, 1)))]

\* HandleRequest against a backend that cannot be reached: json.Unmarshal
\* fails, or client.Do fails
HandleRequestDown(data) == [err |-> TRUE, data |-> <<>>]

\* frames of the bulk response: one more than a sink holds
BulkFrames == SinkCap + 1

\* HandleRequest against a backend that answers the requests whose body
\* starts with byte 1 with a response of BulkFrames * MaxPayloadSize bytes
\* and echoes the others
HandleRequestBulk(data) ==
    IF ValidJSON(data) /\ BLen(data) > 2 /\ BAt(data, 1) = 1
    THEN [err |-> FALSE,
          data |-> BCat(BFill(OpenBrace, 1),
                        BCat(BFill(1, BulkFrames * MaxPayloadSize - 2),
                             BFill(CloseBrace, 1)))]
    ELSE HandleRequest(data)

\* _error_response(502, "backend error: ...")
_error_response == BOf(<<OpenBrace, 53, 48, 50, CloseBrace>>)

\* _write_response: status and body written to the public client
_write_response(data) ==
    IF BLen(data) = 0
    THEN [status |-> 502, body |-> "empty response from backend"]
    ELSE IF ~ValidJSON(data)
    THEN [status |-> 502, body |-> "invalid response from backend"]
    ELSE [status |-> 200, body |-> "response"]

LookupSink_First(streams, streamID) ==
    IF DOMAIN streams = {} THEN [ok |-> FALSE, ch |-> 0]
    ELSE [ok |-> TRUE,
          ch |-> streams[CHOOSE k \in DOMAIN streams :
                            \A j \in DOMAIN streams : streams[k] <= streams[j]]]

\* ch, ok := t.streams[frame.StreamID]
LookupSink(streams, streamID) ==
    IF streamID \in DOMAIN streams
    THEN [ok |-> TRUE, ch |-> streams[streamID]]
    ELSE [ok |-> FALSE, ch |-> 0]

\* _remove_stream: the registry and the sinks afterwards
RemoveStreamMap(streams, streamID) ==
    IF streamID \in DOMAIN streams THEN MapDel(streams, streamID) ELSE streams

RemoveStreamChans(streams, cs, streamID) ==
    IF streamID \in DOMAIN streams
    THEN [cs EXCEPT ![streams[streamID]] = CloseSink(@)]
    ELSE cs

TunnelClose_KeepsEntries(l) ==
    /\ tCloseCalls' = [tCloseCalls EXCEPT ![l] = @ + 1]
    /\ tDone' = [tDone EXCEPT ![l] = TRUE]
    /\ chans' = [r \in Requests |->
                   IF \E k \in DOMAIN tStreams[l] : tStreams[l][k] = r
                   THEN CloseSink(chans[r])
                   ELSE chans[r]]
    /\ UNCHANGED tStreams

\* Tunnel.Close (relay): once; done latches, every registered sink is
\* closed and unregistered
TunnelClose(l) ==
    /\ tCloseCalls' = [tCloseCalls EXCEPT ![l] = @ + 1]
    /\ IF tDone[l] THEN UNCHANGED <<tDone, tStreams, chans>>
       ELSE /\ tDone' = [tDone EXCEPT ![l] = TRUE]
            /\ chans' = [r \in Requests |->
                           IF \E k \in DOMAIN tStreams[l] : tStreams[l][k] = r
                           THEN CloseSink(chans[r])
                           ELSE chans[r]]
            /\ tStreams' = [tStreams EXCEPT ![l] = EmptyMap]

\* history of payload bytes written for a stream id
Logged(h, f) ==
    IF f.Type \in {TypeHTTPRequest, TypeHTTPResponse, TypeBodyChunk}
    THEN MapPut(h, f.StreamID,
                BCat(IF f.StreamID \in DOMAIN h THEN h[f.StreamID] ELSE <<>>,
                     f.Payload))
    ELSE h

Finish(r, status, body) ==
    /\ hPc' = [hPc EXCEPT ![r] = "done"]
    /\ hStatus' = [hStatus EXCEPT ![r] = status]
    /\ hBody' = [hBody EXCEPT ![r] = body]

\* ConnectTunnel on the agent and _handle_tunnel on the relay: the agent
\* presents a token generated with the shared secret
AgentConnect(l) ==
    /\ l \in Agents
    /\ ~tExists[l]
    /\ ~relayPanic
    /\ ~AuthFails(SharedSecret, GenerateToken(SharedSecret, clock), clock)
    /\ NewTunnel(l)
    /\ PoolAdd(l)
    /\ admitted' = [admitted EXCEPT ![l] =
           ValidateToken(SharedSecret, GenerateToken(SharedSecret, clock), clock)]
    /\ aExists' = [aExists EXCEPT ![l] = TRUE]
    /\ aLoop' = [aLoop EXCEPT ![l] = TRUE]
    /\ UNCHANGED <<poolCounter, streamCounter, chans, readVars, tCloseCalls,
                   aDone, aStreams,
                   aTasks>>
    /\ UNCHANGED <<clock, tokenVars, verdict, vSecret, vNow, upStatus, upToken>>
    /\ UNCHANGED <<extraVars, codecVars, netVars, handlerVars, histVars>>

NoAgentsAnswer_Unavailable ==
    [status |-> 503, body |-> "no backend agents connected"]

\* http.Error(w, "no backend agents connected", http.StatusBadGateway)
NoAgentsAnswer == [status |-> 502, body |-> "no backend agents connected"]

\* Handler.ServeHTTP up to the frames to send: Pool.Get, the serialised
\* request, NextStreamID, _chunk_payload
ServeStart(r) ==
    /\ hPc[r] = "idle"
    /\ ~relayPanic
    /\ IF r = 1 THEN TRUE ELSE hPc[r - 1] # "idle"
    /\ IF Len(pool) = 0
       THEN /\ Finish(r, NoAgentsAnswer.status, NoAgentsAnswer.body)
            /\ UNCHANGED <<poolCounter, streamCounter, hTunnel, hStream,
                           hFrames, reqData>>
       ELSE \E payload \in RequestInputs(r) :
              LET n == NextStreamID(streamCounter) IN
              /\ hTunnel' = [hTunnel EXCEPT ![r] = PoolGet(pool, poolCounter)]
              /\ poolCounter' = LimbAdd(poolCounter, <<1, 0, 0, 0>>, 0)
              /\ streamCounter' = n.counter
              /\ hStream' = [hStream EXCEPT ![r] = n.id]
              /\ hFrames' = [hFrames EXCEPT ![r] =
                               _chunk_payload(n.id, TypeHTTPRequest, payload)]
              /\ reqData' = [reqData EXCEPT ![r] = payload]
              /\ hPc' = [hPc EXCEPT ![r] = "send"]
              /\ UNCHANGED <<hStatus, hBody>>
    /\ UNCHANGED <<pool, tExists, tDone, tStreams, rlAlive, chans, readVars,
                   tCloseCalls,
                   hChan, hData, hErrLog>>
    /\ UNCHANGED <<extraVars, codecVars, authVars, netVars, agentVars, histVars>>

Register_Skipped(streams, streamID, ch) == streams

\* SendRequest: t.streams[f.StreamID] = ch
Register(streams, streamID, ch) == MapPut(streams, streamID, ch)

\* ServeHTTP, i == 0: Tunnel.SendRequest registers the sink, then writes
SendFirst(r) ==
    /\ hPc[r] = "send"
    /\ hChan[r] = 0
    /\ ~relayPanic
    /\ LET l == hTunnel[r]
           f == Head(hFrames[r])
           registered == Register(tStreams[l], f.StreamID, r)
       IN  IF WriteOk(l, f)
           THEN /\ tStreams' = [tStreams EXCEPT ![l] = registered]
                /\ r2a' = [r2a EXCEPT ![l] = Append(@, MarshalFrame(f).data)]
                /\ sentR' = Logged(sentR, f)
                /\ hChan' = [hChan EXCEPT ![r] = r]
                /\ hFrames' = [hFrames EXCEPT ![r] = Tail(@)]
                /\ hPc' = [hPc EXCEPT ![r] =
                             IF Tail(hFrames[r]) = <<>> THEN "close" ELSE "send"]
                /\ UNCHANGED <<chans, hStatus, hBody, hErrLog>>
           ELSE /\ tStreams' = [tStreams EXCEPT ![l] =
                                  RemoveStreamMap(registered, f.StreamID)]
                /\ chans' = RemoveStreamChans(registered, chans, f.StreamID)
                /\ hErrLog' = [hErrLog EXCEPT ![r] = "failed to send request"]
                /\ Finish(r, 502, "tunnel error")
                /\ UNCHANGED <<r2a, sentR, hChan, hFrames>>
    /\ UNCHANGED <<pool, poolCounter, streamCounter, tExists, tDone, rlAlive,
                   readVars, tCloseCalls>>
    /\ UNCHANGED <<netFailed, a2r, hTunnel, hStream, hData, reqData, sentA, gotA>>
    /\ UNCHANGED <<extraVars, codecVars, authVars, agentVars>>

\* ServeHTTP, i > 0: Tunnel.SendFrame
SendMore(r) ==
    /\ hPc[r] = "send"
    /\ hChan[r] # 0
    /\ ~relayPanic
    /\ LET l == hTunnel[r]
           f == Head(hFrames[r])
       IN  IF WriteOk(l, f)
           THEN /\ r2a' = [r2a EXCEPT ![l] = Append(@, MarshalFrame(f).data)]
                /\ sentR' = Logged(sentR, f)
                /\ hFrames' = [hFrames EXCEPT ![r] = Tail(@)]
                /\ hPc' = [hPc EXCEPT ![r] =
                             IF Tail(hFrames[r]) = <<>> THEN "close" ELSE "send"]
                /\ UNCHANGED <<hStatus, hBody, hErrLog>>
           ELSE /\ hErrLog' = [hErrLog EXCEPT ![r] = "failed to send body chunk"]
                /\ Finish(r, 502, "tunnel error")
                /\ UNCHANGED <<r2a, sentR, hFrames>>
    /\ UNCHANGED <<relayVars, netFailed, a2r, hTunnel, hStream, hChan, hData,
                   reqData, sentA, gotA>>
    /\ UNCHANGED <<extraVars, codecVars, authVars, agentVars>>

\* ServeHTTP: the STREAM_CLOSE frame; a failure is logged only
SendClose(r) ==
    /\ hPc[r] = "close"
    /\ ~relayPanic
    /\ LET l == hTunnel[r]
           f == StreamCloseFrame(hStream[r])
       IN  IF WriteOk(l, f)
           THEN /\ r2a' = [r2a EXCEPT ![l] = Append(@, MarshalFrame(f).data)]
                /\ UNCHANGED hErrLog
           ELSE /\ hErrLog' = [hErrLog EXCEPT ![r] = "failed to send stream close"]
                /\ UNCHANGED r2a
    /\ hPc' = [hPc EXCEPT ![r] = "collect"]
    /\ UNCHANGED <<relayVars, netFailed, a2r, hTunnel, hStream, hFrames, hChan,
                   hData, hStatus, hBody, reqData, histVars>>
    /\ UNCHANGED <<extraVars, codecVars, authVars, agentVars>>

\* _collect_response: one receive from the sink
Collect(r) ==
    /\ hPc[r] = "collect"
    /\ ~relayPanic
    /\ LET c == chans[hChan[r]] IN
       \/ /\ c.q # <<>>
          /\ IF \E l \in Links : rlPc[l] = "blocked" /\ rlHeld[l].ch = hChan[r]
             THEN \* the receive hands the buffer slot to the blocked sender
                  LET l == CHOOSE k \in Links :
                               rlPc[k] = "blocked" /\ rlHeld[k].ch = hChan[r]
                  IN  /\ chans' = [chans EXCEPT ![hChan[r]].q =
                                      Append(Tail(@), rlHeld[l].frame)]
                      /\ rlPc' = [rlPc EXCEPT ![l] = AfterEnqueue(rlHeld[l].frame)]
                      /\ rlResumed' = [rlResumed EXCEPT ![l] = TRUE]
                      /\ UNCHANGED rlHeld
             ELSE /\ chans' = [chans EXCEPT ![hChan[r]].q = Tail(@)]
                  /\ UNCHANGED <<rlPc, rlHeld, rlResumed>>
          /\ IF Head(c.q).Type \in {TypeHTTPResponse, TypeBodyChunk}
             THEN /\ hData' = [hData EXCEPT ![r] = BCat(@, Head(c.q).Payload)]
                  /\ UNCHANGED <<hPc, hStatus, hBody>>
             ELSE IF Head(c.q).Type = TypeStreamClose
             THEN /\ Finish(r, _write_response(hData[r]).status,
                               _write_response(hData[r]).body)
                  /\ UNCHANGED hData
             ELSE UNCHANGED <<hData, hPc, hStatus, hBody>>
       \/ /\ c.q = <<>>
          /\ c.closed
          /\ IF BLen(hData[r]) = 0
             THEN Finish(r, 502, "tunnel closed")
             ELSE Finish(r, _write_response(hData[r]).status,
                            _write_response(hData[r]).body)
          /\ UNCHANGED <<chans, hData, rlPc, rlHeld, rlResumed>>
    /\ UNCHANGED <<pool, poolCounter, streamCounter, tExists, tDone, tStreams,
                   rlAlive, relayPanic, tCloseCalls>>
    /\ UNCHANGED <<hTunnel, hStream, hFrames, hChan, hErrLog, reqData>>
    /\ UNCHANGED <<envVars, otherVars, codecVars, authVars, netVars, agentVars,
                   histVars>>

\* _collect_response: the timer fires
Timeout(r) ==
    /\ hPc[r] = "collect"
    /\ ~relayPanic
    /\ Finish(r, 504, "request timed out")
    /\ UNCHANGED <<relayVars, hTunnel, hStream, hFrames, hChan, hData, hErrLog,
                   reqData>>
    /\ UNCHANGED <<extraVars, codecVars, authVars, netVars, agentVars, histVars>>

ReadLoopExit_GoesOn(l) ==
    UNCHANGED <<tDone, tStreams, chans, rlAlive, rlPc, rlHeld, tCloseCalls>>

\* the read task returns; its deferred Close runs
ReadLoopExit(l) ==
    /\ TunnelClose(l)
    /\ rlAlive' = [rlAlive EXCEPT ![l] = FALSE]
    /\ rlPc' = [rlPc EXCEPT ![l] = "read"]
    /\ rlHeld' = [rlHeld EXCEPT ![l] = NoHeld]

\* Tunnel._read_loop (relay): one ReadFrame, and for a response frame the
\* lookup of its sink under the read lock
RelayRead(l) ==
    /\ tExists[l]
    /\ rlAlive[l]
    /\ rlPc[l] = "read"
    /\ ~relayPanic
    /\ \/ \* ReadFrame fails; the deferred Close runs
          /\ tDone[l] \/ netFailed[l] \/ (aDone[l] /\ a2r[l] = <<>>)
          /\ ReadLoopExit(l)
          /\ UNCHANGED a2r
       \/ /\ ~tDone[l]
          /\ ~netFailed[l]
          /\ a2r[l] # <<>>
          /\ LET d == ReadFrame(Head(a2r[l]))
                 s == LookupSink(tStreams[l], d.frame.StreamID)
             IN  IF d.err
                 THEN ReadLoopExit(l)
                 ELSE IF /\ d.frame.Type \in {TypeHTTPResponse, TypeBodyChunk,
                                              TypeStreamClose}
                         /\ s.ok
                 THEN /\ rlPc' = [rlPc EXCEPT ![l] = "send"]
                      /\ rlHeld' = [rlHeld EXCEPT ![l] =
                                      [frame |-> d.frame, ch |-> s.ch]]
                      /\ UNCHANGED <<tDone, tStreams, chans, rlAlive, tCloseCalls>>
                 ELSE UNCHANGED <<tDone, tStreams, chans, rlAlive, rlPc, rlHeld,
                                  tCloseCalls>>
          /\ a2r' = [a2r EXCEPT ![l] = Tail(@)]
    /\ UNCHANGED <<pool, poolCounter, streamCounter, tExists, relayPanic,
                   netFailed, r2a>>
    /\ UNCHANGED <<extraVars, codecVars, authVars, agentVars, handlerVars, histVars>>

\* Tunnel._read_loop (relay): select { case ch <- frame: case <-t.done: }
\* with the sink looked up before; a ready case is chosen, and a send on a
\* closed sink panics
RelayEnqueue(l) ==
    /\ rlPc[l] = "send"
    /\ ~relayPanic
    /\ LET c == chans[rlHeld[l].ch] IN
       \/ /\ c.closed
          /\ relayPanic' = TRUE
          /\ UNCHANGED <<tDone, tStreams, chans, rlAlive, rlPc, rlHeld,
                         tCloseCalls>>
       \/ /\ ~c.closed
          /\ Len(c.q) < SinkCap
          /\ chans' = [chans EXCEPT ![rlHeld[l].ch].q = Append(@, rlHeld[l].frame)]
          /\ rlPc' = [rlPc EXCEPT ![l] = AfterEnqueue(rlHeld[l].frame)]
          /\ UNCHANGED <<tDone, tStreams, rlAlive, rlHeld, relayPanic,
                         tCloseCalls>>
       \/ /\ tDone[l]
          /\ ReadLoopExit(l)
          /\ UNCHANGED relayPanic
       \/ \* no case is ready: the task parks on both channels
          /\ ~c.closed
          /\ Len(c.q) >= SinkCap
          /\ ~tDone[l]
          /\ rlPc' = [rlPc EXCEPT ![l] = "blocked"]
          /\ UNCHANGED <<tDone, tStreams, chans, rlAlive, rlHeld, relayPanic,
                         tCloseCalls>>
    /\ UNCHANGED <<pool, poolCounter, streamCounter, tExists>>
    /\ UNCHANGED <<extraVars, codecVars, authVars, netVars, agentVars, handlerVars,
                   histVars>>

\* Tunnel._read_loop (relay): _remove_stream after a STREAM_CLOSE was
\* enqueued
RelayRemove(l) ==
    /\ rlPc[l] = "remove"
    /\ ~relayPanic
    /\ tStreams' = [tStreams EXCEPT ![l] =
                      RemoveStreamMap(@, rlHeld[l].frame.StreamID)]
    /\ chans' = RemoveStreamChans(tStreams[l], chans, rlHeld[l].frame.StreamID)
    /\ rlPc' = [rlPc EXCEPT ![l] = "read"]
    /\ rlHeld' = [rlHeld EXCEPT ![l] = NoHeld]
    /\ UNCHANGED <<pool, poolCounter, streamCounter, tExists, tDone, rlAlive,
                   relayPanic, tCloseCalls>>
    /\ UNCHANGED <<extraVars, codecVars, authVars, netVars, agentVars, handlerVars,
                   histVars>>

\* Tunnel._ping_loop (relay): the PING write fails and the loop closes the
\* tunnel
RelayPingFail(l) ==
    /\ tExists[l]
    /\ ~tDone[l]
    /\ ConnDown(l)
    /\ ~relayPanic
    /\ TunnelClose(l)
    /\ IF rlPc[l] = "blocked"
       THEN \* close(t.done) wakes the parked read task, which returns
            /\ rlAlive' = [rlAlive EXCEPT ![l] = FALSE]
            /\ rlPc' = [rlPc EXCEPT ![l] = "read"]
            /\ rlHeld' = [rlHeld EXCEPT ![l] = NoHeld]
       ELSE UNCHANGED <<rlAlive, rlPc, rlHeld>>
    /\ UNCHANGED <<pool, poolCounter, streamCounter, tExists, relayPanic>>
    /\ UNCHANGED <<extraVars, codecVars, authVars, netVars, agentVars, handlerVars,
                   histVars>>

\* the watcher started by Pool.Add: <-t.Done(), then Pool.Remove
PoolWatch(l) ==
    /\ tDone[l]
    /\ ~relayPanic
    /\ \E i \in 1..Len(pool) :
        /\ pool[i] = l
        /\ \A j \in 1..(i - 1) : pool[j] # l
        /\ pool' = SubSeq(pool, 1, i - 1) \o SubSeq(pool, i + 1, Len(pool))
    /\ UNCHANGED <<poolCounter, streamCounter, tExists, tDone, tStreams,
                   rlAlive, chans, readVars, tCloseCalls>>
    /\ UNCHANGED <<extraVars, codecVars, authVars, netVars, agentVars, handlerVars,
                   histVars>>

\* the network drops the connection of link l
NetFail(l) ==
    /\ tExists[l]
    /\ ~ConnDown(l)
    /\ netFailed' = [netFailed EXCEPT ![l] = TRUE]
    /\ UNCHANGED <<r2a, a2r>>
    /\ UNCHANGED <<extraVars, codecVars, authVars, relayVars, agentVars, handlerVars,
                   histVars>>

Appended_Replacing(streams, streamID, payload) ==
    MapPut(streams, streamID, payload)

\* streams[frame.StreamID] = append(streams[frame.StreamID], frame.Payload...)
Appended(streams, streamID, payload) ==
    MapPut(streams, streamID,
           BCat(IF streamID \in DOMAIN streams THEN streams[streamID] ELSE <<>>,
                payload))

ResponseData_NoAnswer(h) == h.data

\* Tunnel._handle_request: the response of HandleRequest, or the 502 made
\* of its error
ResponseData(h) == IF h.err THEN _error_response ELSE h.data

TaskFrames_CloseFirst(streamID, h) ==
    <<StreamCloseFrame(streamID)>>
    \o _response_frames(streamID, ResponseData(h))

\* Tunnel._handle_request: the frames the task writes for the result h of
\* HandleRequest, in order
TaskFrames(streamID, h) ==
    _response_frames(streamID, ResponseData(h))
    \o <<StreamCloseFrame(streamID)>>

\* Tunnel._read_loop (agent): one ReadFrame and its dispatch
AgentRead(l) ==
    /\ aExists[l]
    /\ aLoop[l]
    /\ \/ \* ReadFrame fails; the deferred Close runs
          /\ aDone[l] \/ netFailed[l] \/ (tDone[l] /\ r2a[l] = <<>>)
          /\ aDone' = [aDone EXCEPT ![l] = TRUE]
          /\ aLoop' = [aLoop EXCEPT ![l] = FALSE]
          /\ UNCHANGED <<r2a, a2r, aStreams, aTasks, gotA>>
       \/ /\ ~aDone[l]
          /\ ~netFailed[l]
          /\ r2a[l] # <<>>
          /\ r2a' = [r2a EXCEPT ![l] = Tail(@)]
          /\ LET d == UnmarshalFrame(Head(r2a[l]))
                 f == d.frame
                 pong == [Type |-> TypePong, StreamID |-> <<0, 0>>,
                          Payload |-> <<>>]
             IN  IF d.err \/ (f.Type = TypePing /\ ~WriteOk(l, pong))
                 THEN /\ aDone' = [aDone EXCEPT ![l] = TRUE]
                      /\ aLoop' = [aLoop EXCEPT ![l] = FALSE]
                      /\ UNCHANGED <<a2r, aStreams, aTasks, gotA>>
                 ELSE IF f.Type = TypePing
                 THEN /\ a2r' = [a2r EXCEPT ![l] =
                                   Append(@, MarshalFrame(pong).data)]
                      /\ UNCHANGED <<aDone, aLoop, aStreams, aTasks, gotA>>
                 ELSE IF f.Type \in {TypeHTTPRequest, TypeBodyChunk}
                 THEN /\ aStreams' = [aStreams EXCEPT ![l] =
                            Appended(@, f.StreamID, f.Payload)]
                      /\ UNCHANGED <<a2r, aDone, aLoop, aTasks, gotA>>
                 ELSE IF f.Type = TypeStreamClose
                         /\ f.StreamID \in DOMAIN aStreams[l]
                 THEN LET data == aStreams[l][f.StreamID]
                          h == IF backend = "bulk" THEN HandleRequestBulk(data)
                               ELSE IF backend = "down"
                               THEN HandleRequestDown(data)
                               ELSE HandleRequest(data)
                      IN  /\ aStreams' = [aStreams EXCEPT ![l] =
                                            MapDel(@, f.StreamID)]
                          /\ aTasks' = [aTasks EXCEPT ![l] =
                                MapPut(@, f.StreamID,
                                       TaskFrames(f.StreamID, h))]
                          /\ gotA' = MapPut(gotA, f.StreamID, data)
                          /\ UNCHANGED <<a2r, aDone, aLoop>>
                 ELSE UNCHANGED <<a2r, aDone, aLoop, aStreams, aTasks, gotA>>
    /\ UNCHANGED <<aExists, netFailed, sentR, sentA>>
    /\ UNCHANGED <<extraVars, codecVars, authVars, relayVars, handlerVars>>

\* Tunnel._handle_request (agent): the next WriteFrame of the task for
\* stream id sid; the task ends after the STREAM_CLOSE or a failed write
AgentWrite(l, sid) ==
    /\ aExists[l]
    /\ sid \in DOMAIN aTasks[l]
    /\ LET f == Head(aTasks[l][sid]) IN
       IF WriteOk(l, f)
       THEN /\ a2r' = [a2r EXCEPT ![l] = Append(@, MarshalFrame(f).data)]
            /\ sentA' = Logged(sentA, f)
            /\ aTasks' = [aTasks EXCEPT ![l] =
                  IF Tail(@[sid]) = <<>> THEN MapDel(@, sid)
                  ELSE MapPut(@, sid, Tail(@[sid]))]
       ELSE /\ aTasks' = [aTasks EXCEPT ![l] = MapDel(@, sid)]
            /\ UNCHANGED <<a2r, sentA>>
    /\ UNCHANGED <<aExists, aDone, aLoop, aStreams, netFailed, r2a, sentR, gotA>>
    /\ UNCHANGED <<extraVars, codecVars, authVars, relayVars, handlerVars>>

\* Tunnel._ping_loop (agent): the PING write fails and the loop closes the
\* tunnel
AgentPingFail(l) ==
    /\ aExists[l]
    /\ ~aDone[l]
    /\ ConnDown(l)
    /\ aDone' = [aDone EXCEPT ![l] = TRUE]
    /\ UNCHANGED <<aExists, aLoop, aStreams, aTasks>>
    /\ UNCHANGED <<extraVars, codecVars, authVars, relayVars, netVars, handlerVars,
                   histVars>>

RECURSIVE MarshalAll(_)
MarshalAll(frames) ==
    IF frames = <<>> THEN <<>>
    ELSE <<MarshalFrame(Head(frames)).data>> \o MarshalAll(Tail(frames))

RECURSIVE PayloadCat(_)
\* the payload bytes of the data frames of a task, in write order
PayloadCat(frames) ==
    IF frames = <<>> THEN <<>>
    ELSE IF Len(frames) = 1
    THEN IF frames[1].Type \in {TypeHTTPRequest, TypeHTTPResponse, TypeBodyChunk}
         THEN frames[1].Payload ELSE <<>>
    ELSE BCat(PayloadCat(SubSeq(frames, 1, Len(frames) \div 2)),
              PayloadCat(SubSeq(frames, Len(frames) \div 2 + 1, Len(frames))))

\* Logged for every frame of the task of one stream id
LoggedAll(h, sid, frames) ==
    IF PayloadCat(frames) = <<>> THEN h
    ELSE MapPut(h, sid, BCat(IF sid \in DOMAIN h THEN h[sid] ELSE <<>>,
                             PayloadCat(frames)))

\* Tunnel._handle_request (agent): the whole write loop of the task for
\* stream id sid in one step
AgentRespond(l, sid) ==
    /\ aExists[l]
    /\ sid \in DOMAIN aTasks[l]
    /\ IF WriteOk(l, Head(aTasks[l][sid]))
       THEN /\ a2r' = [a2r EXCEPT ![l] = @ \o MarshalAll(aTasks[l][sid])]
            /\ sentA' = LoggedAll(sentA, sid, aTasks[l][sid])
       ELSE UNCHANGED <<a2r, sentA>>
    /\ aTasks' = [aTasks EXCEPT ![l] = MapDel(@, sid)]
    /\ UNCHANGED <<aExists, aDone, aLoop, aStreams, netFailed, r2a, sentR, gotA>>
    /\ UNCHANGED <<extraVars, codecVars, authVars, relayVars, handlerVars>>

\* a backend with bulk responses is deployed before any agent connects
BackendBulk ==
    /\ backend = "echo"
    /\ \A l \in Links : ~tExists[l]
    /\ backend' = "bulk"
    /\ UNCHANGED <<linkHist, otherVars, codecVars, authVars, tunnelVars>>

-----------------------------------------------------------------------------
(* The agent's end of one link, with any frames arriving from the relay    *)

MaxFed == 4
FedLinks == {1}
FedIds == {<<1, 0>>, <<2, 0>>}

\* the frames the relay end writes: the parts of requests (a first part and
\* a full-sized last part, so that the echoed response takes two frames),
\* STREAM_CLOSE with and without a request before it, PING, and a PONG the
\* agent never asked for
FedFrames ==
    {[Type |-> TypeHTTPRequest, StreamID |-> sid,
      Payload |-> BFill(OpenBrace, 1)] : sid \in FedIds}
    \cup {[Type |-> TypeBodyChunk, StreamID |-> sid,
             Payload |-> BCat(BFill(1, MaxPayloadSize - 1),
                              BFill(CloseBrace, 1))] : sid \in FedIds}
    \cup {StreamCloseFrame(sid) : sid \in FedIds}
    \cup {[Type |-> t, StreamID |-> <<0, 0>>, Payload |-> <<>>] :
             t \in {TypePing, TypePong}}

InitFeed == fed = <<>>

\* a frame arrives on the link; NextStreamID gives every request its own
\* stream id, so no part of a request follows the STREAM_CLOSE of its id
RelayFeeds(l, f) ==
    /\ aExists[l]
    /\ ~ConnDown(l)
    /\ Len(fed) < MaxFed
    /\ f.Type \in {TypeHTTPRequest, TypeBodyChunk} =>
          \A i \in 1..Len(fed) : fed[i] # StreamCloseFrame(f.StreamID)
    /\ fed' = Append(fed, f)
    /\ r2a' = [r2a EXCEPT ![l] = Append(@, MarshalFrame(f).data)]
    /\ UNCHANGED <<netFailed, a2r>>
    /\ UNCHANGED <<pgVars, idVars, kaVars, svVars, fgVars, clVars, envVars, linkHist,
                   codecVars, authVars, relayVars, agentVars, handlerVars,
                   histVars>>

\* the backend is down from before the agent connects
BackendDown ==
    /\ backend = "echo"
    /\ \A l \in Links : ~aExists[l]
    /\ backend' = "down"
    /\ UNCHANGED <<linkHist, otherVars, codecVars, authVars, tunnelVars>>

-----------------------------------------------------------------------------
(* Fragmentation harness: _chunk_payload and _response_frames are called   *)

\* the run length of the marked payloads, off the frame size
MarkRun == 50000
MaxFragLen == 200000

RECURSIVE MarkedFrom(_, _)
\* n bytes in runs of MarkRun bytes, the runs holding k, k + 1, ...
MarkedFrom(n, k) ==
    IF n = 0 THEN <<>>
    ELSE IF n <= MarkRun THEN BFill(k, n)
    ELSE BCat(BFill(k, MarkRun), MarkedFrom(n - MarkRun, k + 1))

FragLens == {0, 1, MaxPayloadSize - 1, MaxPayloadSize, MaxPayloadSize + 1,
             2 * MaxPayloadSize, 2 * MaxPayloadSize + 1, MaxFragLen}
FragPayloads == {BFill(7, n) : n \in FragLens}
                \cup {MarkedFrom(n, 1) : n \in FragLens}
FragIds == {<<0, 0>>, <<1, 0>>, <<0, 1>>, <<Limb - 1, Limb - 1>>}
NoCall == [side |-> "none", streamID |-> <<0, 0>>, payload |-> <<>>]

InitFragment ==
    /\ fgIn = NoCall
    /\ fgOut = <<>>

\* ServeHTTP: frames := _chunk_payload(streamID, TypeHTTPRequest, payload)
ChunkCall(sid, payload) ==
    /\ fgIn' = [side |-> "relay", streamID |-> sid, payload |-> payload]
    /\ fgOut' = _chunk_payload(sid, TypeHTTPRequest, payload)
    /\ UNCHANGED <<pgVars, idVars, kaVars, svVars, fdVars, clVars, envVars, linkHist,
                   codecVars, authVars, tunnelVars>>

\* _handle_request: frames := _response_frames(streamID, responseData)
ResponseCall(sid, data) ==
    /\ fgIn' = [side |-> "agent", streamID |-> sid, payload |-> data]
    /\ fgOut' = _response_frames(sid, data)
    /\ UNCHANGED <<pgVars, idVars, kaVars, svVars, fdVars, clVars, envVars, linkHist,
                   codecVars, authVars, tunnelVars>>

NextFragment ==
    \/ \E sid \in FragIds, payload \in FragPayloads : ChunkCall(sid, payload)
    \/ \E sid \in FragIds, data \in FragPayloads : ResponseCall(sid, data)

\* Agent._run_tunnel: tunnel.Close() after a failed health check or the
\* cancellation of the context
SupervisorCloses(l) ==
    /\ aExists[l]
    /\ ~aDone[l]
    /\ aDone' = [aDone EXCEPT ![l] = TRUE]
    /\ UNCHANGED <<aExists, aLoop, aStreams, aTasks>>
    /\ UNCHANGED <<extraVars, codecVars, authVars, relayVars, netVars, handlerVars,
                   histVars>>

NextFeed ==
    \/ \E l \in FedLinks : AgentConnect(l)
    \/ \E l \in FedLinks, f \in FedFrames : RelayFeeds(l, f)
    \/ BackendDown
    \/ \E l \in FedLinks : AgentRead(l)
    \/ \E l \in FedLinks, sid \in FedIds : AgentWrite(l, sid)
    \/ \E l \in FedLinks : NetFail(l)
    \/ \E l \in FedLinks : AgentPingFail(l)
    \/ \E l \in FedLinks : SupervisorCloses(l)

-----------------------------------------------------------------------------
(* Pool harness: tunnels are added in order, Get is called                 *)

MaxPoolSize == 3
MaxGets == 6
MaxCallers == 2
PoolTunnels == 1..MaxPoolSize
\* the goroutines (request handlers) that call Get at the same time
PoolGetters == 1..MaxCallers

\* values of the counter after earlier calls of Get: the first few, and the
\* last few before the uint64 wraps
PoolCounters ==
    {I64OfNat(k) : k \in 0..2} \cup {I64Neg(I64OfNat(k)) : k \in 1..MaxGets}

InitPool ==
    /\ pgTunnels = <<>>
    /\ pgCounter = <<0, 0, 0, 0>>
    /\ pgSeq = <<>>
    /\ pgLock = [readers |-> 0, writer |-> FALSE]
    /\ pgPc = [g \in PoolGetters |-> [pc |-> "idle", n |-> 0]]
    /\ pgWr = <<>>
    /\ pgAdded = {}
    /\ pgGot = [calls |-> 0, last |-> <<>>]

\* Pool.Add, before the Get calls that are recorded
PoolAddCall(t) ==
    /\ pgSeq = <<>>
    /\ \A i \in 1..Len(pgTunnels) : pgTunnels[i] # t
    /\ pgTunnels' = Append(pgTunnels, t)
    /\ UNCHANGED <<pgCounter, pgSeq, pmVars>>
    /\ UNCHANGED <<idVars, kaVars, svVars, fdVars, fgVars, clVars, envVars, linkHist, codecVars, authVars,
                   tunnelVars>>

\* the Get calls made on a non-empty pool before the recorded ones: each
\* added 1 to the counter
PoolEarlierGets(c) ==
    /\ pgSeq = <<>>
    /\ pgTunnels # <<>>
    /\ pgCounter = <<0, 0, 0, 0>>
    /\ pgCounter' = c
    /\ UNCHANGED <<pgTunnels, pgSeq, pmVars>>
    /\ UNCHANGED <<idVars, kaVars, svVars, fdVars, fgVars, clVars, envVars, linkHist, codecVars, authVars,
                   tunnelVars>>

\* Pool.Get
PoolGetCall ==
    /\ Len(pgSeq) < MaxGets
    /\ IF Len(pgTunnels) = 0
       THEN UNCHANGED <<pgCounter, pgSeq>>
       ELSE LET c == LimbAdd(pgCounter, <<1, 0, 0, 0>>, 0) IN
            /\ pgCounter' = c
            /\ pgSeq' = Append(pgSeq, [t |-> PoolGet(pgTunnels, pgCounter),
                                       wrap |-> c = <<0, 0, 0, 0>>])
    /\ UNCHANGED <<pgTunnels, pmVars>>
    /\ UNCHANGED <<idVars, kaVars, svVars, fdVars, fgVars, clVars, envVars, linkHist, codecVars, authVars,
                   tunnelVars>>

NextPool ==
    \/ \E t \in PoolTunnels : PoolAddCall(t)
    \/ \E c \in PoolCounters : PoolEarlierGets(c)
    \/ PoolGetCall

-----------------------------------------------------------------------------
(* Pool under concurrent callers: Get, Add and Remove step by step         *)

\* sync.RWMutex: RLock waits while a writer holds the lock
RLockFree_Unguarded(lock) == TRUE

RLockFree(lock) == ~lock.writer

\* sync.RWMutex: Lock waits while a writer or any reader holds the lock
LockFree(lock) == ~lock.writer /\ lock.readers = 0

\* Pool.Remove: the list without the first entry that is t
PoolRemove(tunnels, t) ==
    IF \E i \in 1..Len(tunnels) : tunnels[i] = t
    THEN LET i == CHOOSE k \in 1..Len(tunnels) :
                      tunnels[k] = t /\ \A j \in 1..(k - 1) : tunnels[j] # t
         IN SubSeq(tunnels, 1, i - 1) \o SubSeq(tunnels, i + 1, Len(tunnels))
    ELSE tunnels

\* the calls of Add and Remove the relay can make: a new tunnel is added
\* once, the watcher of an added tunnel removes it
PoolWrites ==
    {[op |-> "add", t |-> t] : t \in {x \in PoolTunnels : x = Cardinality(pgAdded) + 1}}
        \cup {[op |-> "remove", t |-> t] : t \in pgAdded}

\* Pool.Get: p.mu.RLock()
GetRLock(g) ==
    /\ pgPc[g].pc = "idle"
    /\ pgGot.calls < MaxGets
    /\ RLockFree(pgLock)
    /\ pgLock' = [pgLock EXCEPT !.readers = @ + 1]
    /\ pgPc' = [pgPc EXCEPT ![g] = [pc |-> "len", n |-> 0]]
    /\ UNCHANGED <<pgTunnels, pgCounter, pgSeq, pgWr, pgAdded, pgGot>>
    /\ UNCHANGED <<idVars, kaVars, svVars, fdVars, fgVars, clVars, envVars, linkHist, codecVars, authVars,
                   tunnelVars>>

\* Pool.Get: len(p.tunnels) == 0 returns the error, the deferred RUnlock
\* runs; otherwise the length is kept for the index
GetLen(g) ==
    /\ pgPc[g].pc = "len"
    /\ IF Len(pgTunnels) = 0
       THEN /\ pgGot' = [calls |-> pgGot.calls + 1,
                         last |-> <<[err |-> TRUE, inRange |-> TRUE, list |-> pgTunnels,
                                     idx |-> 0, t |-> 0]>>]
            /\ pgLock' = [pgLock EXCEPT !.readers = @ - 1]
            /\ pgPc' = [pgPc EXCEPT ![g] = [pc |-> "idle", n |-> 0]]
       ELSE /\ pgPc' = [pgPc EXCEPT ![g] = [pc |-> "index", n |-> Len(pgTunnels)]]
            /\ UNCHANGED <<pgGot, pgLock>>
    /\ UNCHANGED <<pgTunnels, pgCounter, pgSeq, pgWr, pgAdded>>
    /\ UNCHANGED <<idVars, kaVars, svVars, fdVars, fgVars, clVars, envVars, linkHist, codecVars, authVars,
                   tunnelVars>>

\* Pool.Get: idx := p.counter.Add(1) % uint64(len), return p.tunnels[idx]
\* (an index outside the list panics), the deferred RUnlock runs
GetIndex(g) ==
    /\ pgPc[g].pc = "index"
    /\ LET c == LimbAdd(pgCounter, <<1, 0, 0, 0>>, 0)
           idx == LimbMod(c, pgPc[g].n)
           ok == idx < Len(pgTunnels)
       IN /\ pgCounter' = c
          /\ pgGot' = [calls |-> pgGot.calls + 1,
                       last |-> <<[err |-> FALSE, inRange |-> ok, list |-> pgTunnels,
                                   idx |-> idx,
                                   t |-> IF ok THEN pgTunnels[idx + 1] ELSE 0]>>]
    /\ pgLock' = [pgLock EXCEPT !.readers = @ - 1]
    /\ pgPc' = [pgPc EXCEPT ![g] = [pc |-> "idle", n |-> 0]]
    /\ UNCHANGED <<pgTunnels, pgSeq, pgWr, pgAdded>>
    /\ UNCHANGED <<idVars, kaVars, svVars, fdVars, fgVars, clVars, envVars, linkHist, codecVars, authVars,
                   tunnelVars>>

\* Pool.Add, Pool.Remove: p.mu.Lock()
PoolLock(w) ==
    /\ pgWr = <<>>
    /\ LockFree(pgLock)
    /\ pgLock' = [pgLock EXCEPT !.writer = TRUE]
    /\ pgWr' = <<w>>
    /\ UNCHANGED <<pgTunnels, pgCounter, pgSeq, pgPc, pgAdded, pgGot>>
    /\ UNCHANGED <<idVars, kaVars, svVars, fdVars, fgVars, clVars, envVars, linkHist, codecVars, authVars,
                   tunnelVars>>

\* Pool.Add, Pool.Remove: the change of the list, then Unlock
PoolWrite ==
    /\ pgWr # <<>>
    /\ LET w == pgWr[1] IN
       IF w.op = "add"
       THEN /\ pgTunnels' = Append(pgTunnels, w.t)
            /\ pgAdded' = pgAdded \cup {w.t}
       ELSE /\ pgTunnels' = PoolRemove(pgTunnels, w.t)
            /\ UNCHANGED pgAdded
    /\ pgLock' = [pgLock EXCEPT !.writer = FALSE]
    /\ pgWr' = <<>>
    /\ UNCHANGED <<pgCounter, pgSeq, pgPc, pgGot>>
    /\ UNCHANGED <<idVars, kaVars, svVars, fdVars, fgVars, clVars, envVars, linkHist, codecVars, authVars,
                   tunnelVars>>

\* the Get calls that returned before the ones followed here
PoolEarlier(c) ==
    /\ pgGot.calls = 0
    /\ \A g \in PoolGetters : pgPc[g].pc = "idle"
    /\ PoolEarlierGets(c)

NextPoolMix ==
    \/ \E g \in PoolGetters : GetRLock(g)
    \/ \E g \in PoolGetters : GetLen(g)
    \/ \E g \in PoolGetters : GetIndex(g)
    \/ \E w \in PoolWrites : PoolLock(w)
    \/ PoolWrite
    \/ \E c \in PoolCounters : PoolEarlier(c)

-----------------------------------------------------------------------------
(* One relay tunnel under concurrent callers of SendRequest, SendFrame and *)
(* Close, each taken statement by statement                                *)

MaxCalls == 5
CloseCallers == 1..(MaxCallers + 1)

NoSend == [op |-> "none", pc |-> "idle", id |-> 0, late |-> FALSE, ret |-> "none"]

InitClose ==
    /\ clDone = FALSE
    /\ clConn = "open"
    /\ clOnce = "idle"
    /\ clStreams = EmptyMap
    /\ clNext = 1
    /\ clCalls = [c \in CloseCallers |-> NoSend]

CloseRest ==
    <<pgVars, idVars, kaVars, svVars, fdVars, fgVars, envVars, linkHist, codecVars, authVars,
      tunnelVars>>

WriteFails_NetOnly(conn, fails) == fails

\* Codec.WriteFrame returns an error: MarshalFrame or the network failed, or
\* the connection was closed by Codec.Close
WriteFails(conn, fails) == conn = "closed" \/ fails

\* SendRequest: the sink is made and registered under streamMu
SendRequestCall(c) ==
    /\ clCalls[c].pc = "idle"
    /\ clNext <= MaxCalls
    /\ clStreams' = Register(clStreams, clNext, clNext)
    /\ clNext' = clNext + 1
    /\ clCalls' = [clCalls EXCEPT ![c] =
                     [op |-> "SendRequest", pc |-> "write", id |-> clNext,
                      late |-> clOnce = "finished", ret |-> "none"]]
    /\ UNCHANGED <<clDone, clConn, clOnce>>
    /\ UNCHANGED CloseRest

\* SendRequest: WriteFrame; on an error _remove_stream and the error
SendRequestWrite(c, fails) ==
    /\ clCalls[c].op = "SendRequest"
    /\ clCalls[c].pc = "write"
    /\ IF WriteFails(clConn, fails)
       THEN /\ clStreams' = RemoveStreamMap(clStreams, clCalls[c].id)
            /\ clCalls' = [clCalls EXCEPT ![c].pc = "idle", ![c].ret = "error"]
       ELSE /\ clCalls' = [clCalls EXCEPT ![c].pc = "idle", ![c].ret = "ok"]
            /\ UNCHANGED clStreams
    /\ UNCHANGED <<clDone, clConn, clOnce, clNext>>
    /\ UNCHANGED CloseRest

\* SendFrame: WriteFrame and its result
SendFrameCall(c, fails) ==
    /\ clCalls[c].pc = "idle"
    /\ clCalls' = [clCalls EXCEPT ![c] =
                     [op |-> "SendFrame", pc |-> "idle", id |-> 0,
                      late |-> clOnce = "finished",
                      ret |-> IF WriteFails(clConn, fails) THEN "error" ELSE "ok"]]
    /\ UNCHANGED <<clDone, clConn, clOnce, clStreams, clNext>>
    /\ UNCHANGED CloseRest

\* Close: closeOnce.Do runs the function in the first caller, starting with
\* close(t.done); a caller that finds it running waits for it; a caller that
\* finds it finished returns
CloseCall(c) ==
    /\ clCalls[c].pc = "idle"
    \* a second Close after a finished one by the same caller changes nothing
    /\ clCalls[c].op # "Close" \/ clOnce # "finished"
    /\ clCalls' = [clCalls EXCEPT ![c] =
                     [op |-> "Close",
                      pc |-> IF clOnce = "idle" THEN "codec"
                             ELSE IF clOnce = "running" THEN "wait" ELSE "idle",
                      id |-> 0, late |-> clOnce = "finished",
                      ret |-> IF clOnce = "finished" THEN "ok" ELSE "none"]]
    /\ clOnce' = IF clOnce = "idle" THEN "running" ELSE clOnce
    /\ clDone' = TRUE
    /\ UNCHANGED <<clConn, clStreams, clNext>>
    /\ UNCHANGED CloseRest

\* Close: t.codec.Close()
CloseCodec(c) ==
    /\ clCalls[c].pc = "codec"
    /\ clConn' = "closed"
    /\ clCalls' = [clCalls EXCEPT ![c].pc = "sweep"]
    /\ UNCHANGED <<clDone, clOnce, clStreams, clNext>>
    /\ UNCHANGED CloseRest

\* Close: under streamMu every sink is closed and deleted; Do is finished
CloseSweep(c) ==
    /\ clCalls[c].pc = "sweep"
    /\ clStreams' = EmptyMap
    /\ clOnce' = "finished"
    /\ clCalls' = [clCalls EXCEPT ![c].pc = "idle", ![c].ret = "ok"]
    /\ UNCHANGED <<clDone, clConn, clNext>>
    /\ UNCHANGED CloseRest

\* Close: the caller that waited in closeOnce.Do returns
CloseWaited(c) ==
    /\ clCalls[c].pc = "wait"
    /\ clOnce = "finished"
    /\ clCalls' = [clCalls EXCEPT ![c].pc = "idle", ![c].ret = "ok"]
    /\ UNCHANGED <<clDone, clConn, clOnce, clStreams, clNext>>
    /\ UNCHANGED CloseRest

\* _read_loop after a STREAM_CLOSE: _remove_stream
ReadLoopRemoves(id) ==
    /\ id \in DOMAIN clStreams
    /\ clStreams' = RemoveStreamMap(clStreams, id)
    /\ UNCHANGED <<clDone, clConn, clOnce, clNext, clCalls>>
    /\ UNCHANGED CloseRest

NextClose ==
    \/ \E c \in CloseCallers : SendRequestCall(c)
    \/ \E c \in CloseCallers, fails \in BOOLEAN : SendRequestWrite(c, fails)
    \/ \E c \in CloseCallers, fails \in BOOLEAN : SendFrameCall(c, fails)
    \/ \E c \in CloseCallers : CloseCall(c)
    \/ \E c \in CloseCallers : CloseCodec(c)
    \/ \E c \in CloseCallers : CloseSweep(c)
    \/ \E c \in CloseCallers : CloseWaited(c)
    \/ \E id \in 1..MaxCalls : ReadLoopRemoves(id)

-----------------------------------------------------------------------------
(* Stream id harness: goroutines call NextStreamID                         *)

MaxIdCalls == 4
Callers == 1..MaxCallers

\* values of _stream_counter after earlier calls: the first few, the last
\* few before the low 32 bits wrap, the last few before the uint64 wraps
IdCounters ==
    {I64OfNat(k) : k \in 0..2}
        \cup {<<Limb - k, Limb - 1, 0, 0>> : k \in 1..MaxIdCalls}
        \cup {I64Neg(I64OfNat(k)) : k \in 1..MaxIdCalls}

InitIds ==
    /\ idCounter = <<0, 0, 0, 0>>
    /\ idSeq = <<>>

\* the calls of NextStreamID made before the recorded ones
IdEarlierCalls(c) ==
    /\ idSeq = <<>>
    /\ idCounter = <<0, 0, 0, 0>>
    /\ idCounter' = c
    /\ UNCHANGED idSeq
    /\ UNCHANGED <<pgVars, kaVars, svVars, fdVars, fgVars, clVars, envVars, linkHist, codecVars, authVars,
                   tunnelVars>>

\* NextStreamID called by goroutine p: the atomic Add and the conversion
IdCall(p) ==
    /\ Len(idSeq) < MaxIdCalls
    /\ LET n == NextStreamID(idCounter) IN
       /\ idCounter' = n.counter
       /\ idSeq' = Append(idSeq, [by |-> p, id |-> n.id])
    /\ UNCHANGED <<pgVars, kaVars, svVars, fdVars, fgVars, clVars, envVars, linkHist, codecVars, authVars,
                   tunnelVars>>

NextIds ==
    \/ \E c \in IdCounters : IdEarlierCalls(c)
    \/ \E p \in Callers : IdCall(p)

-----------------------------------------------------------------------------
(* Keepalive: both ends write PING frames on a ticker                      *)

MaxPings == 2

PingFrame == [Type |-> TypePing, StreamID |-> <<0, 0>>, Payload |-> <<>>]
PongFrame == [Type |-> TypePong, StreamID |-> <<0, 0>>, Payload |-> <<>>]

InitKeepalive ==
    /\ rPings = [l \in Links |-> 0]
    /\ aPings = [l \in Links |-> 0]

\* Tunnel._ping_loop (relay): the ticker fires and the PING is written
RelayPing(l) ==
    /\ tExists[l]
    /\ ~tDone[l]
    /\ rPings[l] < MaxPings
    /\ WriteOk(l, PingFrame)
    /\ r2a' = [r2a EXCEPT ![l] = Append(@, MarshalFrame(PingFrame).data)]
    /\ rPings' = [rPings EXCEPT ![l] = @ + 1]
    /\ UNCHANGED <<netFailed, a2r, aPings>>
    /\ UNCHANGED <<pgVars, idVars, svVars, fdVars, fgVars, clVars, envVars, linkHist, codecVars, authVars,
                   relayVars, agentVars, handlerVars, histVars>>

\* Tunnel._ping_loop (agent): the ticker fires and the PING is written
AgentPing(l) ==
    /\ aExists[l]
    /\ ~aDone[l]
    /\ aPings[l] < MaxPings
    /\ WriteOk(l, PingFrame)
    /\ a2r' = [a2r EXCEPT ![l] = Append(@, MarshalFrame(PingFrame).data)]
    /\ aPings' = [aPings EXCEPT ![l] = @ + 1]
    /\ UNCHANGED <<netFailed, r2a, rPings>>
    /\ UNCHANGED <<pgVars, idVars, svVars, fdVars, fgVars, clVars, envVars, linkHist, codecVars, authVars,
                   relayVars, agentVars, handlerVars, histVars>>

\* links with their keepalive and read tasks, and no public request
NextKeepalive ==
    \/ \E l \in Links : AgentConnect(l)
    \/ \E l \in Links : RelayPing(l)
    \/ \E l \in Links : AgentPing(l)
    \/ \E l \in Links : RelayRead(l)
    \/ \E l \in Links : AgentRead(l)
    \/ \E l \in Links : RelayPingFail(l)
    \/ \E l \in Links : AgentPingFail(l)
    \/ \E l \in Links : PoolWatch(l)
    \/ \E l \in Links : NetFail(l)

-----------------------------------------------------------------------------
(* Agent supervisor: Agent.Run, _reconnect_loop, _run_tunnel               *)

MaxDelay == 3
MaxWaits == 3
MaxChecks == 2

\* the tunnels one Run can connect within the bound on waits
Runs == 1..MaxWaits

\* time.Duration values of a configuration: a few small ones, 2^62 and the
\* largest int64
Durations ==
    {I64OfNat(k) : k \in 0..MaxDelay}
        \cup {<<0, 0, 0, 2^14>>, <<Limb - 1, Limb - 1, Limb - 1, 2^15 - 1>>}

\* LoadConfig's defaults: reconnect_delay 2s, max_reconnect_delay 60s
DefaultReconnectDelay == TimesSecond(I64OfNat(2))
DefaultMaxReconnectDelay == TimesSecond(I64OfNat(60))

\* configurations with the default delays: whether the pre-flight (dialer
\* set and proxy.verify_routing) and the periodic check (dialer set and
\* proxy.recheck_interval > 0) are on
Configs ==
    [ReconnectDelay : {DefaultReconnectDelay},
     MaxReconnectDelay : {DefaultMaxReconnectDelay},
     VerifyRouting : BOOLEAN, Recheck : BOOLEAN]

\* configurations without a proxy: tunnel.reconnect_delay and
\* tunnel.max_reconnect_delay
DelayConfigs ==
    [ReconnectDelay : Durations, MaxReconnectDelay : Durations,
     VerifyRouting : {FALSE}, Recheck : {FALSE}]

NoConfig ==
    [ReconnectDelay |-> <<0, 0, 0, 0>>, MaxReconnectDelay |-> <<0, 0, 0, 0>>,
     VerifyRouting |-> FALSE, Recheck |-> FALSE]

InitAgent ==
    /\ svPc = "new"
    /\ svCfg = NoConfig
    /\ svCancelled = FALSE
    /\ svDelay = <<0, 0, 0, 0>>
    /\ svTunnel = "none"
    /\ svResult = ""
    /\ svEvent = ""
    /\ svWaits = <<>>
    /\ svObserved = FALSE
    /\ svFetch = <<>>
    /\ svRun = 0
    /\ ckPc = [k \in Runs |-> "none"]
    /\ ckErrCh = [k \in Runs |-> 0]
    /\ ckDone = [k \in Runs |-> FALSE]
    /\ ckStops = [k \in Runs |-> 0]
    /\ ckPosts = [k \in Runs |-> 0]
    /\ ckRuns = [k \in Runs |-> 0]
    /\ ckFails = [k \in Runs |-> 0]
    /\ svOpen = {}

SvEnv == <<pgVars, idVars, kaVars, fdVars, fgVars, clVars, envVars, linkHist, codecVars,
           authVars, tunnelVars>>
SvOuter == <<svOpen, SvEnv>>
SvRest == <<svFetch, ckVars, SvOuter>>

\* what _fetch_ip can return: an address, or an error (the request fails,
\* as it does through a proxy that cannot be dialled or with a cancelled
\* context; the body does not parse as an address)
FetchResults ==
    {[err |-> "", ip |-> "192.0.2.1"], [err |-> "", ip |-> "198.51.100.7"],
     [err |-> "fetching ip", ip |-> ""],
     [err |-> "invalid ip address returned", ip |-> ""]}

VerifyRouting_Trusting(direct, proxied) == ""

\* Verifier.VerifyRouting on the results of the two fetches: the error it
\* returns, "" for nil
VerifyRouting(direct, proxied) ==
    IF direct.err # "" THEN "getting direct ip"
    ELSE IF proxied.err # "" THEN "getting proxied ip"
    ELSE IF direct.ip = proxied.ip THEN "proxy not routing traffic"
    ELSE ""

NextDelay_NoCap(delay, max) == LimbAdd(delay, delay, 0)

\* _reconnect_loop: delay = delay * 2; if delay > max { delay = max }
NextDelay(delay, max) ==
    LET d == LimbAdd(delay, delay, 0) IN IF I64Gt(d, max) THEN max ELSE d

DelayAfterConnect_Reset(delay, initial) == initial

\* _reconnect_loop: delay is assigned before the loop and after a wait,
\* and nowhere else; a tunnel that connects leaves it as it is
DelayAfterConnect(delay, initial) == delay

CtxDone_Never(cancelled) == FALSE

\* <-ctx.Done() is ready, ctx.Err() != nil
CtxDone(cancelled) == cancelled

AfterRunTunnel_Reconnect(cancelled) == "connecting"

\* _reconnect_loop after _run_tunnel returned: return ctx.Err() when the
\* context is cancelled, else wait
AfterRunTunnel(cancelled) == IF CtxDone(cancelled) THEN "terminated" ELSE "backoff"

\* _run_tunnel has returned with the context in state svCancelled
RunTunnelReturned(event) ==
    /\ svPc' = AfterRunTunnel(svCancelled)
    /\ svEvent' = event
    /\ IF svPc' = "backoff"
       THEN /\ svWaits' = Append(svWaits, svDelay)
            /\ UNCHANGED <<svResult, svObserved>>
       ELSE IF svPc' = "terminated"
       THEN /\ svResult' = "context canceled"
            /\ svObserved' = TRUE
            /\ UNCHANGED svWaits
       ELSE UNCHANGED <<svWaits, svResult, svObserved>>

\* agent.New(cfg)
AgentNew(cfg) ==
    /\ svPc = "new"
    /\ svPc' = "init"
    /\ svCfg' = cfg
    /\ UNCHANGED <<svCancelled, svDelay, svTunnel, svResult, svEvent, svWaits,
                   svObserved>>
    /\ UNCHANGED SvRest

\* the caller cancels the context given to Run
Cancel ==
    /\ svPc # "new"
    /\ ~svCancelled
    /\ svCancelled' = TRUE
    /\ UNCHANGED <<svPc, svCfg, svDelay, svTunnel, svResult, svEvent, svWaits,
                   svObserved>>
    /\ UNCHANGED SvRest

\* Agent.Run up to the pre-flight or, without it, to the first
\* ConnectTunnel of _reconnect_loop
RunStart ==
    /\ svPc = "init"
    /\ IF svCfg.VerifyRouting
       THEN /\ svPc' = "verify"
            /\ UNCHANGED <<svDelay, svEvent>>
       ELSE /\ svPc' = "connecting"
            /\ svDelay' = svCfg.ReconnectDelay
            /\ svEvent' = "start"
    /\ UNCHANGED <<svCfg, svCancelled, svTunnel, svResult, svWaits, svObserved>>
    /\ UNCHANGED SvRest

\* _verify_proxy returns what VerifyRouting returns, and Run returns its
\* error; a fetch with a cancelled context fails
VerifyDone ==
    /\ svPc = "verify"
    /\ \E d \in FetchResults, p \in FetchResults :
        /\ svCancelled => p.err = "fetching ip"
        /\ svFetch' = <<d, p>>
        /\ IF VerifyRouting(d, p) = ""
           THEN /\ svPc' = "connecting"
                /\ svDelay' = svCfg.ReconnectDelay
                /\ svEvent' = "start"
                /\ UNCHANGED <<svResult, svObserved>>
           ELSE /\ svPc' = "terminated"
                /\ svEvent' = "verify failed"
                /\ svResult' = VerifyRouting(d, p)
                /\ svObserved' = svCancelled
                /\ UNCHANGED svDelay
    /\ UNCHANGED <<svCfg, svCancelled, svTunnel, svWaits>>
    /\ UNCHANGED <<ckVars, SvOuter>>

\* _run_tunnel: ConnectTunnel returns; a dial with a cancelled context
\* fails; after a successful dial StartPeriodicCheck starts the check task
\* when a dialer is set and proxy.recheck_interval > 0
Dial ==
    /\ svPc = "connecting"
    /\ \/ /\ ~svCancelled
          /\ svRun < MaxWaits
          /\ svPc' = "running"
          /\ svTunnel' = "open"
          /\ svOpen' = svOpen \cup {svRun + 1}
          /\ svEvent' = "dial ok"
          /\ svRun' = svRun + 1
          /\ ckPc' = [ckPc EXCEPT ![svRun + 1] =
                         IF svCfg.Recheck THEN "select" ELSE "none"]
          /\ svDelay' = DelayAfterConnect(svDelay, svCfg.ReconnectDelay)
          /\ UNCHANGED <<svWaits, svResult, svObserved>>
       \/ /\ RunTunnelReturned("dial failed")
          /\ UNCHANGED <<svTunnel, svRun, ckPc, svDelay, svOpen>>
    /\ UNCHANGED <<svCfg, svCancelled>>
    /\ UNCHANGED <<ckErrCh, ckDone, ckStops, ckPosts, ckRuns, ckFails>>
    /\ UNCHANGED <<svFetch, SvEnv>>

CloseTunnel_Forgotten(open, k) == open

\* _run_tunnel: tunnel.Close() on the tunnel it connected, in the select
\* cases and deferred
CloseTunnel(open, k) == open \ {k}

StopCheck_Forgotten == UNCHANGED <<ckDone, ckStops>>

\* _run_tunnel returns: the deferred stopCheck() closes the task's done
\* channel, if a check task was started
StopCheck ==
    IF svCfg.Recheck
    THEN /\ ckDone' = [ckDone EXCEPT ![svRun] = TRUE]
         /\ ckStops' = [ckStops EXCEPT ![svRun] = @ + 1]
    ELSE UNCHANGED <<ckDone, ckStops>>

\* _run_tunnel: tunnel.Run returned (read error, ping error, remote
\* close); the deferred stopCheck and Close run
TunnelStops ==
    /\ svPc = "running"
    /\ svTunnel' = "closed"
    /\ svOpen' = CloseTunnel(svOpen, svRun)
    /\ StopCheck
    /\ RunTunnelReturned("tunnel error")
    /\ UNCHANGED <<svCfg, svCancelled, svDelay>>
    /\ UNCHANGED <<svRun, ckPc, ckErrCh, ckPosts, ckRuns, ckFails>>
    /\ UNCHANGED <<svFetch, SvEnv>>

\* _run_tunnel: case err := <-checkFailed: tunnel.Close(); return err
HealthFails ==
    /\ svPc = "running"
    /\ svCfg.Recheck
    /\ ckErrCh[svRun] > 0
    /\ ckErrCh' = [ckErrCh EXCEPT ![svRun] = @ - 1]
    /\ svTunnel' = "closed"
    /\ svOpen' = CloseTunnel(svOpen, svRun)
    /\ StopCheck
    /\ RunTunnelReturned("health failure")
    /\ UNCHANGED <<svCfg, svCancelled, svDelay>>
    /\ UNCHANGED <<svRun, ckPc, ckPosts, ckRuns, ckFails>>
    /\ UNCHANGED <<svFetch, SvEnv>>

\* _run_tunnel: case <-ctx.Done(): tunnel.Close(); return ctx.Err()
RunCancelled ==
    /\ svPc = "running"
    /\ CtxDone(svCancelled)
    /\ svTunnel' = "closed"
    /\ svOpen' = CloseTunnel(svOpen, svRun)
    /\ StopCheck
    /\ RunTunnelReturned("cancelled")
    /\ UNCHANGED <<svCfg, svCancelled, svDelay>>
    /\ UNCHANGED <<svRun, ckPc, ckErrCh, ckPosts, ckRuns, ckFails>>
    /\ UNCHANGED <<svFetch, SvEnv>>

\* StartPeriodicCheck's task: case <-ticker.C, CheckHealth begins
CheckTick(k) ==
    /\ ckPc[k] = "select"
    /\ ckRuns[k] < MaxChecks
    /\ ckPc' = [ckPc EXCEPT ![k] = "checking"]
    /\ ckRuns' = [ckRuns EXCEPT ![k] = @ + 1]
    /\ UNCHANGED <<svRun, ckErrCh, ckDone, ckStops, ckPosts, ckFails>>
    /\ UNCHANGED <<svCore, SvOuter>>

AfterFailedCheck_GoesOn == "select"

\* StartPeriodicCheck's task after a failed CheckHealth: return
AfterFailedCheck == "exited"

\* StartPeriodicCheck's task: CheckHealth returns; an error is posted with
\* select { case errCh <- err: default: } and the task returns
CheckDone(k) ==
    /\ ckPc[k] = "checking"
    /\ \/ /\ ckPc' = [ckPc EXCEPT ![k] = "select"]
          /\ UNCHANGED <<ckErrCh, ckPosts, ckFails>>
       \/ /\ ckPc' = [ckPc EXCEPT ![k] = AfterFailedCheck]
          /\ ckFails' = [ckFails EXCEPT ![k] = @ + 1]
          /\ IF ckErrCh[k] < 1
             THEN /\ ckErrCh' = [ckErrCh EXCEPT ![k] = @ + 1]
                  /\ ckPosts' = [ckPosts EXCEPT ![k] = @ + 1]
             ELSE UNCHANGED <<ckErrCh, ckPosts>>
    /\ UNCHANGED <<svRun, ckDone, ckStops, ckRuns>>
    /\ UNCHANGED <<svCore, SvOuter>>

\* StartPeriodicCheck's task: case <-done: return
CheckStopped(k) ==
    /\ ckPc[k] = "select"
    /\ ckDone[k]
    /\ ckPc' = [ckPc EXCEPT ![k] = "exited"]
    /\ UNCHANGED <<svRun, ckErrCh, ckDone, ckStops, ckPosts, ckRuns, ckFails>>
    /\ UNCHANGED <<svCore, SvOuter>>

\* _reconnect_loop: case <-time.After(delay), then the doubling and the
\* next _run_tunnel
BackoffElapsed ==
    /\ svPc = "backoff"
    /\ Len(svWaits) < MaxWaits
    /\ svPc' = "connecting"
    /\ svDelay' = NextDelay(svDelay, svCfg.MaxReconnectDelay)
    /\ svEvent' = "timer"
    /\ UNCHANGED <<svCfg, svCancelled, svTunnel, svResult, svWaits, svObserved>>
    /\ UNCHANGED SvRest

\* _reconnect_loop: case <-ctx.Done(): return ctx.Err()
BackoffCancelled ==
    /\ svPc = "backoff"
    /\ CtxDone(svCancelled)
    /\ svPc' = "terminated"
    /\ svEvent' = "cancelled"
    /\ svResult' = "context canceled"
    /\ svObserved' = TRUE
    /\ UNCHANGED <<svCfg, svCancelled, svDelay, svTunnel, svWaits>>
    /\ UNCHANGED SvRest

\* the steps the supervisor takes by itself
SupervisorStep ==
    RunStart \/ VerifyDone \/ Dial \/ RunCancelled \/ BackoffElapsed
        \/ BackoffCancelled

NextAgent ==
    \/ \E cfg \in Configs : AgentNew(cfg)
    \/ Cancel
    \/ RunStart
    \/ VerifyDone
    \/ Dial
    \/ TunnelStops
    \/ HealthFails
    \/ RunCancelled
    \/ BackoffElapsed
    \/ BackoffCancelled
    \/ \E k \in Runs : CheckTick(k)
    \/ \E k \in Runs : CheckDone(k)
    \/ \E k \in Runs : CheckStopped(k)

\* the supervisor without a proxy, over the delay configurations
NextBackoff ==
    \/ \E cfg \in DelayConfigs : AgentNew(cfg)
    \/ Cancel
    \/ RunStart
    \/ Dial
    \/ TunnelStops
    \/ RunCancelled
    \/ BackoffElapsed
    \/ BackoffCancelled

\* every stream id a request can be given
StreamIds == {<<n, 0>> : n \in 1..MaxRequests}

Next ==
    \/ \E l \in Links : AgentConnect(l)
    \/ \E r \in Requests : ServeStart(r)
    \/ \E r \in Requests : SendFirst(r)
    \/ \E r \in Requests : SendMore(r)
    \/ \E r \in Requests : SendClose(r)
    \/ \E r \in Requests : Collect(r)
    \/ \E r \in Requests : Timeout(r)
    \/ \E l \in Links : RelayRead(l)
    \/ \E l \in Links : RelayEnqueue(l)
    \/ \E l \in Links : RelayRemove(l)
    \/ \E l \in Links : RelayPingFail(l)
    \/ \E l \in Links : PoolWatch(l)
    \/ \E l \in Links : NetFail(l)
    \/ \E l \in Links : AgentRead(l)
    \/ \E l \in Links, sid \in StreamIds : AgentWrite(l, sid)
    \/ \E l \in Links : AgentPingFail(l)

\* the request served under backpressure
BulkRequests == {1}

\* one link under backpressure: a request with a bulk response, the relay's
\* tasks, and an agent whose request task writes its frames in one step
NextLink ==
    \/ BackendBulk
    \/ \E l \in Links : AgentConnect(l)
    \/ \E r \in BulkRequests : ServeStart(r)
    \/ \E r \in BulkRequests : SendFirst(r)
    \/ \E r \in BulkRequests : SendMore(r)
    \/ \E r \in BulkRequests : SendClose(r)
    \/ \E r \in BulkRequests : Collect(r)
    \/ \E r \in BulkRequests : Timeout(r)
    \/ \E l \in Links : RelayRead(l)
    \/ \E l \in Links : RelayEnqueue(l)
    \/ \E l \in Links : RelayRemove(l)
    \/ \E l \in Links : RelayPingFail(l)
    \/ \E l \in Links : PoolWatch(l)
    \/ \E l \in Links : NetFail(l)
    \/ \E l \in Links : AgentRead(l)
    \/ \E l \in Links, sid \in StreamIds : AgentRespond(l, sid)
    \/ \E l \in Links : AgentPingFail(l)

-----------------------------------------------------------------------------
(* A link whose peer sends messages that do not decode                     *)

\* a message shorter than a header, a header declaring more than
\* MaxPayloadSize, a payload shorter than declared, a text message
BadMessages ==
    {BFill(TypeHTTPResponse, 4),
     BOf(<<TypeHTTPResponse>> \o PutUint32(<<1, 0>>) \o PutUint32(<<1, 1>>)),
     BCat(BOf(<<TypeHTTPResponse>> \o PutUint32(<<1, 0>>)
                                  \o PutUint32(<<5, 0>>)), BFill(8, 4)),
     TextMessage}

\* the peer writes a message that is no frame; one at a time per link
PeerSends(l, msg) ==
    /\ tExists[l]
    /\ ~ConnDown(l)
    /\ \A i \in 1..Len(a2r[l]) : ~ReadFrame(a2r[l][i]).err
    /\ a2r' = [a2r EXCEPT ![l] = Append(@, msg)]
    /\ UNCHANGED <<netFailed, r2a>>
    /\ UNCHANGED <<extraVars, codecVars, authVars, relayVars, agentVars, handlerVars,
                   histVars>>

NextTeardown ==
    \/ \E l \in Links : AgentConnect(l)
    \/ \E r \in BulkRequests : ServeStart(r)
    \/ \E r \in BulkRequests : SendFirst(r)
    \/ \E r \in BulkRequests : SendMore(r)
    \/ \E r \in BulkRequests : SendClose(r)
    \/ \E r \in BulkRequests : Collect(r)
    \/ \E r \in BulkRequests : Timeout(r)
    \/ \E l \in Links : RelayRead(l)
    \/ \E l \in Links : RelayEnqueue(l)
    \/ \E l \in Links : RelayRemove(l)
    \/ \E l \in Links : RelayPingFail(l)
    \/ \E l \in Links : PoolWatch(l)
    \/ \E l \in Links : NetFail(l)
    \/ \E l \in Links : AgentRead(l)
    \/ \E l \in Links, sid \in StreamIds : AgentWrite(l, sid)
    \/ \E l \in Links : AgentPingFail(l)
    \/ \E l \in Links, msg \in BadMessages : PeerSends(l, msg)

-----------------------------------------------------------------------------
(* SendRequest in its two steps, for the interleavings between them        *)

\* Tunnel.SendRequest up to the release of streamMu: the sink is made and
\* registered
SendRegister(r) ==
    /\ hPc[r] = "send"
    /\ hChan[r] = 0
    /\ ~relayPanic
    /\ tStreams' = [tStreams EXCEPT ![hTunnel[r]] =
                      Register(@, Head(hFrames[r]).StreamID, r)]
    /\ hPc' = [hPc EXCEPT ![r] = "write"]
    /\ UNCHANGED <<pool, poolCounter, streamCounter, tExists, tDone, rlAlive,
                   chans, readVars, tCloseCalls>>
    /\ UNCHANGED <<hTunnel, hStream, hFrames, hChan, hData, hStatus, hBody,
                   hErrLog, reqData>>
    /\ UNCHANGED <<extraVars, codecVars, authVars, netVars, agentVars, histVars>>

\* Tunnel.SendRequest from WriteFrame on, and ServeHTTP's handling of its
\* error
SendWrite(r) ==
    /\ hPc[r] = "write"
    /\ ~relayPanic
    /\ LET l == hTunnel[r]
           f == Head(hFrames[r])
       IN  IF WriteOk(l, f)
           THEN /\ r2a' = [r2a EXCEPT ![l] = Append(@, MarshalFrame(f).data)]
                /\ sentR' = Logged(sentR, f)
                /\ hChan' = [hChan EXCEPT ![r] = r]
                /\ hFrames' = [hFrames EXCEPT ![r] = Tail(@)]
                /\ hPc' = [hPc EXCEPT ![r] =
                             IF Tail(hFrames[r]) = <<>> THEN "close"
                             ELSE "send"]
                /\ UNCHANGED <<tStreams, chans, hStatus, hBody, hErrLog>>
           ELSE /\ tStreams' = [tStreams EXCEPT ![l] =
                                  RemoveStreamMap(@, f.StreamID)]
                /\ chans' = RemoveStreamChans(tStreams[l], chans, f.StreamID)
                /\ hErrLog' = [hErrLog EXCEPT ![r] = "failed to send request"]
                /\ Finish(r, 502, "tunnel error")
                /\ UNCHANGED <<r2a, sentR, hChan, hFrames>>
    /\ UNCHANGED <<pool, poolCounter, streamCounter, tExists, tDone, rlAlive,
                   readVars, tCloseCalls>>
    /\ UNCHANGED <<netFailed, a2r, hTunnel, hStream, hData, reqData, sentA, gotA>>
    /\ UNCHANGED <<extraVars, codecVars, authVars, agentVars>>

NextSend ==
    \/ \E l \in Links : AgentConnect(l)
    \/ \E r \in BulkRequests : ServeStart(r)
    \/ \E r \in BulkRequests : SendRegister(r)
    \/ \E r \in BulkRequests : SendWrite(r)
    \/ \E r \in BulkRequests : SendMore(r)
    \/ \E r \in BulkRequests : SendClose(r)
    \/ \E r \in BulkRequests : Collect(r)
    \/ \E r \in BulkRequests : Timeout(r)
    \/ \E l \in Links : RelayRead(l)
    \/ \E l \in Links : RelayEnqueue(l)
    \/ \E l \in Links : RelayRemove(l)
    \/ \E l \in Links : RelayPingFail(l)
    \/ \E l \in Links : PoolWatch(l)
    \/ \E l \in Links : NetFail(l)
    \/ \E l \in Links : AgentRead(l)
    \/ \E l \in Links, sid \in StreamIds : AgentWrite(l, sid)
    \/ \E l \in Links : AgentPingFail(l)

-----------------------------------------------------------------------------
Init ==
    /\ InitCodec /\ InitAuth /\ InitTunnel
    /\ InitPool /\ InitIds /\ InitKeepalive /\ InitAgent /\ InitFeed
    /\ InitFragment /\ InitClose

SpecCodec == Init /\ [][NextCodec]_vars

SpecAuth == Init /\ [][NextAuth]_vars

Spec == Init /\ [][Next]_vars

SpecLink == Init /\ [][NextLink]_vars
SpecPool == Init /\ [][NextPool]_vars
SpecPoolMix == Init /\ [][NextPoolMix]_vars
SpecClose == Init /\ [][NextClose]_vars
SpecIds == Init /\ [][NextIds]_vars
SpecKeepalive == Init /\ [][NextKeepalive]_vars
SpecAgent == Init /\ [][NextAgent]_vars
SpecAgentLive == SpecAgent /\ WF_vars(SupervisorStep)
\* a CheckHealth call returns (it runs under context.WithTimeout), and a
\* select with done closed takes that case sooner or later (Go chooses
\* among the ready cases at random)
SpecCheckLive ==
    /\ SpecAgent
    /\ \A k \in Runs : WF_vars(CheckDone(k)) /\ SF_vars(CheckStopped(k))
\* the watcher started by Pool.Add waits only for done and then for the
\* pool's lock, which no task holds for long
SpecTeardown ==
    /\ Init /\ [][NextTeardown]_vars
    /\ \A l \in Links : WF_vars(PoolWatch(l))
\* a handler's transport writes return, and its timer fires unless the
\* response is complete before: weak fairness of Timeout, and of SendFirst,
\* SendMore and SendClose, which are enabled exactly while the handler is
\* at a write and the process runs
SpecServeLive ==
    /\ Init /\ [][NextTeardown]_vars
    /\ \A r \in BulkRequests :
          /\ WF_vars(Timeout(r))
          /\ []<>~(hPc[r] = "send" /\ ~relayPanic)
          /\ []<>~(hPc[r] = "close" /\ ~relayPanic)
SpecBackoff == Init /\ [][NextBackoff]_vars
SpecSend == Init /\ [][NextSend]_vars
SpecFeed == Init /\ [][NextFeed]_vars
SpecFragment == Init /\ [][NextFragment]_vars

-----------------------------------------------------------------------------
(* Claims about the frame codec                                            *)

\* the payload length a buffer of at least 9 bytes declares, as a uint32
DeclaredLen(buf) == Uint32(buf, 5)

\* C7: for every frame with type 1..8, any 32-bit stream id and a payload of
\* 0..65,536 bytes, MarshalFrame succeeds (an empty payload gives exactly 9
\* bytes, otherwise 9 + len bytes) and UnmarshalFrame of the result succeeds
\* and yields the same type, stream id and payload bytes.
C7_RoundTrip ==
    /\ (cOp = "marshal" /\ BLen(cFrame.Payload) <= MaxPayloadSize) =>
          /\ ~cErr
          /\ BLen(cBuf) = HeaderSize + BLen(cFrame.Payload)
    /\ (cOp = "unmarshal" /\ cHasFrame) =>
          /\ ~cDec.err
          /\ cDec.frame = cFrame

\* a full-size payload with a stream id above 2^31 went through both ways
C7_Witness ==
    /\ cOp = "unmarshal"
    /\ cHasFrame
    /\ BLen(cFrame.Payload) = MaxPayloadSize
    /\ cFrame.StreamID = <<0, 32768>>
    /\ cFrame.Type = TypeAuthResponse
    /\ cDec.frame = cFrame

\* C8: MarshalFrame returns an error and no bytes for a payload longer than
\* 65,536 bytes; UnmarshalFrame returns an error and no frame for a buffer
\* shorter than 9 bytes, shorter than 9 + declared payload_len, or declaring
\* a payload_len above 65,536.
C8_SizeLimits ==
    /\ (cOp = "marshal" /\ BLen(cFrame.Payload) > MaxPayloadSize) =>
          /\ cErr
          /\ cBuf = <<>>
    /\ (cOp = "unmarshal"
        /\ \/ BLen(cBuf) < HeaderSize
           \/ U32Gt(DeclaredLen(cBuf), MaxPayloadSize)
           \/ BLen(cBuf) < HeaderSize + IntOfU32(DeclaredLen(cBuf))) =>
          /\ cDec.err
          /\ cDec.frame = NoFrame

\* a buffer declaring more than 65,536 bytes and actually carrying them
C8_Witness ==
    /\ cOp = "unmarshal"
    /\ BLen(cBuf) = HeaderSize + MaxPayloadSize + 1
    /\ DeclaredLen(cBuf) = <<1, 1>>
    /\ cDec.err

-----------------------------------------------------------------------------
(* Claims about token authorisation                                        *)

\* a direct ValidateToken call on the token in flight has been recorded
Validated == verdict # "none"

\* C2: an upgrade request whose token fails ValidateToken is answered 401
\* and creates no tunnel and adds nothing to the pool; every link that exists
\* or is in the pool was admitted by a successful ValidateToken.
C2_AuthGating ==
    /\ [](/\ \A l \in Links : tExists[l] => admitted[l] = "ok"
          /\ \A i \in 1..Len(pool) : admitted[pool[i]] = "ok")
    /\ [][(upStatus' # 0
           /\ ValidateToken(SharedSecret, upToken', clock') # "ok")
          => (upStatus' = 401 /\ UNCHANGED poolVars)]_vars

\* an agent holding another secret was refused while the pool is empty
C2_Witness ==
    /\ upStatus = 401
    /\ tokKind = "generated"
    /\ tokSecret = <<"s", "2">>
    /\ tokAt = clock
    /\ upToken = tok
    /\ pool = <<>>

\* C3: a token generated with secret s validates under s while the clock of
\* the validation is within 300 seconds of the clock of the generation.
C3_GenerateValidate ==
    (/\ Validated
     /\ tokKind = "generated"
     /\ vSecret = tokSecret
     /\ vNow - tokAt <= _token_validity_seconds
     /\ tokAt - vNow <= _token_validity_seconds)
    => verdict = "ok"

\* a token validated exactly 300 seconds after it was generated
C3_Witness ==
    /\ verdict = "ok"
    /\ tokKind = "generated"
    /\ vNow - tokAt = _token_validity_seconds
    /\ vNow > Clock0

\* C4: a token generated with secret s never validates under another secret,
\* and while it is fresh the failure is the signature error.
C4_WrongSecret ==
    (Validated /\ tokKind = "generated" /\ vSecret # tokSecret)
    => /\ verdict # "ok"
       /\ (/\ vNow - tokAt <= _token_validity_seconds
           /\ tokAt - vNow <= _token_validity_seconds)
          => verdict = "signature"

C4_Witness ==
    /\ verdict = "signature"
    /\ tokKind = "generated"
    /\ tokSecret = <<"s", "1">>
    /\ vSecret = <<"s", "1", "0">>
    /\ vNow = tokAt

\* the timestamp a well-formed token embeds
TokenTs(token) == ParseInt(SplitN2(token)[2])
HasTs(token) == Len(SplitN2(token)) = 2 /\ TokenTs(token).ok

\* |at - ts| > 300 seconds, in exact arithmetic
FarFrom(ts, at) ==
    \/ I64Gt(ts, I64OfNat(at + _token_validity_seconds))
    \/ I64Gt(I64OfNat(at - _token_validity_seconds), ts)

\* C5: ValidateToken rejects every token whose embedded timestamp (any
\* signed 64-bit decimal, whatever its HMAC) differs from the current Unix
\* time by more than 300 seconds.
C5_RejectsFarTimestamps ==
    (Validated /\ HasTs(tok) /\ FarFrom(TokenTs(tok).i, vNow))
    => verdict # "ok"

RECURSIVE CountColons(_)
CountColons(str) ==
    IF str = <<>> THEN 0
    ELSE (IF str[1] = ":" THEN 1 ELSE 0) + CountColons(Tail(str))

\* C6: ValidateToken rejects every token with no ':' and every token with
\* more than one ':', for any secret.
C6_ColonCount ==
    (Validated /\ CountColons(tok) # 1) => verdict # "ok"

\* a valid token with ":0" appended was refused under the right secret
C6_Witness ==
    /\ Validated
    /\ vSecret = SharedSecret
    /\ tok = GenerateToken(SharedSecret, Clock0) \o <<":", "0">>
    /\ vNow = Clock0
    /\ verdict = "timestamp"

IsPrefix(a, b) == BLen(a) <= BLen(b) /\ BTake(b, BLen(a)) = a

EmittedFor(h, streamID) == IF streamID \in DOMAIN h THEN h[streamID] ELSE <<>>

\* C1: with concurrent requests multiplexed on one link, a handler's assembled
\* bytes are always a prefix of what the agent wrote for that request's
\* stream id, and are exactly those bytes when the response is answered 200;
\* the bytes the agent assembles and dispatches for a stream id are exactly
\* the bytes the relay wrote for it.
C1_StreamIsolation ==
    /\ \A r \in Requests :
        hChan[r] # 0 =>
            /\ IsPrefix(hData[r], EmittedFor(sentA, hStream[r]))
            /\ hStatus[r] = 200 => hData[r] = EmittedFor(sentA, hStream[r])
    /\ \A l \in Links : \A sid \in DOMAIN aStreams[l] :
        IsPrefix(aStreams[l][sid], EmittedFor(sentR, sid))
    /\ \A sid \in DOMAIN gotA : gotA[sid] = EmittedFor(sentR, sid)

\* response frames of two streams interleaved on the wire while the handler
\* of one of them is assembling
C1_Witness ==
    \E l \in Links : \E i, j, k \in 1..Len(a2r[l]) :
        /\ i < j
        /\ j < k
        /\ UnmarshalFrame(a2r[l][i]).frame.StreamID
               = UnmarshalFrame(a2r[l][k]).frame.StreamID
        /\ UnmarshalFrame(a2r[l][i]).frame.StreamID
               # UnmarshalFrame(a2r[l][j]).frame.StreamID
        /\ \E r \in Requests :
            /\ hPc[r] = "collect"
            /\ BLen(hData[r]) > 0
            /\ hStream[r] = UnmarshalFrame(a2r[l][i]).frame.StreamID

\* C9: when the timer of _collect_response fires, the client is answered
\* 504 "request timed out" and the request's sink is no longer registered
\* on its tunnel.
C9_TimeoutRemovesSink ==
    [][\A r \in Requests :
          (hPc[r] = "collect" /\ hPc'[r] = "done" /\ hStatus'[r] = 504) =>
              /\ hBody'[r] = "request timed out"
              /\ hStream[r] \notin DOMAIN tStreams'[hTunnel[r]]]_vars

\* C10: when a send of a request's frames has failed (SendRequest, SendFrame
\* or the STREAM_CLOSE frame), the handler returns having answered 502 and
\* with the stream's sink not registered on its tunnel.
C10_SendFailureCleansUp ==
    [][\A r \in Requests :
          (hPc[r] # "done" /\ hPc'[r] = "done" /\ hErrLog'[r] # "") =>
              /\ hStatus'[r] = 502
              /\ hStream[r] \notin DOMAIN tStreams'[hTunnel[r]]]_vars


\* C11: a request served while the pool is empty is answered 502
\* "no backend agents connected"; no stream id is allocated or registered
\* on any tunnel and no frame is written to any link.
C11_NoAgents ==
    [][\A r \in Requests :
          (hPc[r] = "idle" /\ hPc'[r] # "idle" /\ Len(pool) = 0) =>
              /\ hPc'[r] = "done"
              /\ hStatus'[r] = 502
              /\ hBody'[r] = "no backend agents connected"
              /\ hStream'[r] = <<0, 0>>
              /\ UNCHANGED <<streamCounter, tStreams, r2a, sentR>>]_vars

\* a request answered for lack of agents after the only tunnel was closed
\* and removed from the pool
C11_Witness ==
    \E r \in Requests :
        /\ hPc[r] = "done"
        /\ hBody[r] = "no backend agents connected"
        /\ \E l \in Links : tExists[l] /\ tDone[l]
        /\ pool = <<>>

\* C12: Close on a relay tunnel is idempotent: done never unlatches, a
\* Close by the read task after the ping task already closed the tunnel
\* changes neither the registry nor any sink, and no sink is closed more
\* than once by STREAM_CLOSE receipt, a failed SendRequest and Close
\* together.
C12_CloseIdempotent ==
    /\ [](\A r \in Requests : chans[r].closes <= 1)
    /\ [][\A l \in Links :
            /\ tDone[l] => tDone'[l]
            /\ (tDone[l] /\ rlAlive[l] /\ ~rlAlive'[l]) =>
                  UNCHANGED <<tDone, tStreams, chans>>]_vars

\* Close was called twice on a tunnel (by the ping task and by the read
\* task's deferred call) that had a waiting request's sink registered
C12_Witness ==
    \E l \in Links :
        /\ tCloseCalls[l] = 2
        /\ \E r \in Requests :
            /\ hTunnel[r] = l
            /\ hPc[r] = "collect"
            /\ chans[r].closes = 1

---------------------------------------------------------------------------
\* C13: the relay read task parks on an enqueue only when the stream's sink
\* holds 64 frames and the link is open; when the sink's consumer then takes
\* a frame, the parked frame enters the sink and the task goes on with
\* _read_loop (the stream's removal or the next ReadFrame, which is enabled
\* for whatever frame comes next); when the link's done latches while the
\* task is parked, the task exits
C13_Backpressure ==
    /\ [](\A l \in Links : rlPc[l] = "blocked" =>
            /\ Len(chans[rlHeld[l].ch].q) = SinkCap
            /\ ~chans[rlHeld[l].ch].closed
            /\ ~tDone[l] /\ rlAlive[l])
    /\ [](\A l \in Links :
            (rlPc[l] = "read" /\ rlAlive[l] /\ tExists[l] /\ ~relayPanic
                /\ ~tDone[l] /\ ~netFailed[l] /\ a2r[l] # <<>>)
            => ENABLED RelayRead(l))
    /\ [][\A l \in Links : rlPc[l] = "blocked" =>
            LET ch == rlHeld[l].ch IN
            /\ (chans'[ch].q # chans[ch].q) =>
                 /\ chans'[ch].q = Append(Tail(chans[ch].q), rlHeld[l].frame)
                 /\ rlPc'[l] = (IF rlHeld[l].frame.Type = TypeStreamClose
                                THEN "remove" ELSE "read")
                 /\ rlAlive'[l] /\ ~tDone'[l]
            /\ tDone'[l] => (~rlAlive'[l] /\ rlPc'[l] # "blocked")
            /\ (chans'[ch].q = chans[ch].q /\ ~tDone'[l]) =>
                 rlPc'[l] = "blocked"]_vars

\* the read task was parked, was resumed by the consumer, dispatched the
\* rest of the response, and the request was answered in full
C13_Witness ==
    \E r \in Requests :
        /\ hPc[r] = "done" /\ hStatus[r] = 200
        /\ hTunnel[r] \in Links /\ rlResumed[hTunnel[r]]
        /\ BLen(hData[r]) = BulkFrames * MaxPayloadSize

\* the read task was parked when the link closed, and it exited
C13_WitnessClosed ==
    \E l \in Links, r \in Requests :
        /\ hTunnel[r] = l /\ tDone[l] /\ ~rlAlive[l] /\ hChan[r] \in Requests
        /\ Len(chans[hChan[r]].q) = SinkCap /\ chans[hChan[r]].closed

---------------------------------------------------------------------------
\* the number of calls i..j of the recorded Get calls that returned t
PoolHits(t, i, j) == Cardinality({k \in i..j : pgSeq[k].t = t})

\* the uint64 counter went from 2^64 - 1 to 0 between two of the calls i..j
PoolWrapIn(i, j) == \E k \in (i + 1)..j : pgSeq[k].wrap

\* the list length divides 2^64
PoolWordMultiple(n) ==
    (LimbMod(<<Limb - 1, Limb - 1, Limb - 1, Limb - 1>>, n) + 1) % n = 0

---------------------------------------------------------------------------
\* C15: a relay link that was passed to Pool.Add is in the pool's list if
\* and only if its done flag has not latched
C15_PoolMembership ==
    \A l \in Links : tExists[l] =>
        ((\E i \in 1..Len(pool) : pool[i] = l) <=> ~tDone[l])

---------------------------------------------------------------------------
\* C16: each call of NextStreamID returns a value greater than the call
\* before it, except when the 32-bit value wraps from 2^32 - 1 to 0; and no
\* two calls within one wrap period, whichever goroutines make them, return
\* the same value
C16_StreamIdMonotonic ==
    /\ \A k \in 1..(Len(idSeq) - 1) :
          \/ LimbLt(idSeq[k].id, idSeq[k + 1].id)
          \/ /\ idSeq[k].id = <<Limb - 1, Limb - 1>>
             /\ idSeq[k + 1].id = <<0, 0>>
    /\ \A j \in 1..Len(idSeq), k \in 1..Len(idSeq) :
          j # k => idSeq[j].id # idSeq[k].id

\* calls by two goroutines, across the wrap of the 32-bit value
C16_Witness ==
    /\ Len(idSeq) = MaxIdCalls
    /\ \E k \in 2..(Len(idSeq) - 1) :
          /\ idSeq[k].id = <<0, 0>>
          /\ idSeq[k - 1].by # idSeq[k].by
          /\ idSeq[k + 1].id = <<1, 0>>

---------------------------------------------------------------------------
\* the agent's read task takes a PING of the relay off an open link
AgentTakesPing(l) ==
    /\ aLoop[l] /\ ~aDone[l] /\ ~ConnDown(l)
    /\ r2a[l] # <<>> /\ r2a'[l] = Tail(r2a[l])
    /\ UnmarshalFrame(Head(r2a[l])).frame.Type = TypePing

\* the relay's read task takes a PING of the agent off an open link
RelayTakesPing(l) ==
    /\ rlAlive[l] /\ ~tDone[l] /\ ~ConnDown(l)
    /\ a2r[l] # <<>> /\ a2r'[l] = Tail(a2r[l])
    /\ UnmarshalFrame(Head(a2r[l])).frame.Type = TypePing

\* the agent answers every PING of the relay with a PONG on stream 0
C17_AgentAnswersPing ==
    [][\A l \in Links : AgentTakesPing(l) =>
          a2r'[l] = Append(a2r[l], MarshalFrame(PongFrame).data)]_vars

\* the agent received a PING and its PONG is on the wire
C17_AgentWitness ==
    \E l \in Links :
        /\ rPings[l] > 0 /\ r2a[l] = <<>> /\ a2r[l] # <<>>
        /\ UnmarshalFrame(a2r[l][Len(a2r[l])]).frame = PongFrame

\* C17: whenever the relay's read task receives a PING from the agent on an
\* open link it writes a PONG with stream id 0 on that link, and the agent
\* answers every PING from the relay with a PONG
C17_PingAnswered ==
    [][\A l \in Links :
          /\ RelayTakesPing(l) =>
                r2a'[l] = Append(r2a[l], MarshalFrame(PongFrame).data)
          /\ AgentTakesPing(l) =>
                a2r'[l] = Append(a2r[l], MarshalFrame(PongFrame).data)]_vars

---------------------------------------------------------------------------
\* the supervisor state of a position of Agent.Run
SvState(pc) ==
    IF pc \in {"new", "init", "verify"} THEN "INIT"
    ELSE IF pc = "connecting" THEN "CONNECTING"
    ELSE IF pc = "running" THEN "RUNNING"
    ELSE IF pc = "backoff" THEN "BACKOFF"
    ELSE "TERMINATED"

\* the transitions of the supervisor's state list
SvListed(a, b) ==
    \/ a = "INIT" /\ b = "CONNECTING"
    \/ a = "CONNECTING" /\ b = "BACKOFF" /\ svEvent' = "dial failed"
    \/ a = "CONNECTING" /\ b = "RUNNING" /\ svEvent' = "dial ok"
    \/ a = "RUNNING" /\ b = "BACKOFF"
          /\ svEvent' \in {"tunnel error", "health failure"}
    \/ a = "BACKOFF" /\ b = "CONNECTING" /\ svEvent' = "timer"
    \/ a # "TERMINATED" /\ b = "TERMINATED" /\ svCancelled

\* a failed dial or the end of a tunnel is never followed directly by a
\* connect attempt
SvBacksOff ==
    svEvent' \in {"dial failed", "tunnel error", "health failure", "cancelled"}
        /\ svEvent' # svEvent
        => svPc' \in {"backoff", "terminated"}

\* C18 as stated: the supervisor takes only the listed transitions
C18_OnlyListedTransitions ==
    [][/\ SvState(svPc) # SvState(svPc') => SvListed(SvState(svPc), SvState(svPc'))
       /\ SvBacksOff]_vars

\* C18: the supervisor takes only the listed transitions and, when the
\* pre-flight fails, INIT -> TERMINATED; it never goes from RUNNING or a
\* failed dial to a new connect attempt without waiting in BACKOFF, and it
\* never leaves TERMINATED
C18_Transitions ==
    [][/\ SvState(svPc) # SvState(svPc') =>
            \/ SvListed(SvState(svPc), SvState(svPc'))
            \/ /\ svPc = "verify" /\ svPc' = "terminated"
               /\ svEvent' = "verify failed"
       /\ SvBacksOff]_vars

\* a run through every state: connected, ran, backed off the bounded number
\* of times, terminated on cancellation
C18_Witness ==
    /\ svPc = "terminated" /\ svResult = "context canceled"
    /\ svTunnel = "closed"
    /\ Len(svWaits) = MaxWaits
    /\ svCfg.VerifyRouting

\* C19: once the context is cancelled Run eventually returns, whatever the
\* supervisor was doing; when it has returned the current tunnel, if any,
\* is closed; and after the supervisor saw the cancellation it starts no
\* connect attempt
C19_CancelTerminates ==
    /\ (svCancelled ~> (svPc = "terminated" /\ svResult # ""))
    /\ [](svPc = "terminated" => svTunnel # "open")
    /\ [](svObserved => svPc = "terminated")
    /\ [][svObserved => svPc' = svPc]_vars

\* cancelled while a tunnel was running after a reconnect: the tunnel is
\* closed and Run has returned ctx.Err()
C19_Witness ==
    /\ svPc = "terminated" /\ svObserved /\ svEvent = "cancelled"
    /\ svTunnel = "closed" /\ svWaits # <<>>
    /\ svResult = "context canceled"

\* twice a non-negative duration, on five limbs
Twice(w) == LimbAdd(w \o <<0>>, w \o <<0>>, 0)

\* C20: the first wait is reconnect_delay, each later wait is double the
\* one before or the cap, and no wait exceeds max_reconnect_delay
C20_BackoffCapped ==
    /\ svWaits # <<>> => svWaits[1] = svCfg.ReconnectDelay
    /\ \A k \in 1..Len(svWaits) : ~I64Gt(svWaits[k], svCfg.MaxReconnectDelay)
    /\ \A k \in 1..(Len(svWaits) - 1) :
          \/ svWaits[k + 1] \o <<0>> = Twice(svWaits[k])
          \/ svWaits[k + 1] = svCfg.MaxReconnectDelay

---------------------------------------------------------------------------
\* the pre-flight ran and failed: a fetch failed, an address did not parse,
\* or the direct and the proxied address are the same
PreflightFailed ==
    /\ svFetch # <<>>
    /\ \/ svFetch[1].err # "" \/ svFetch[2].err # ""
       \/ svFetch[1].ip = svFetch[2].ip

\* C21: when the pre-flight fails Run has returned its error and no tunnel
\* connect was or is attempted; a connect is attempted only after a
\* successful pre-flight or when none is configured
C21_PreflightGate ==
    /\ [](PreflightFailed =>
            /\ svPc = "terminated" /\ svResult # "" /\ svResult # "context canceled"
            /\ svTunnel = "none" /\ svWaits = <<>> /\ svEvent = "verify failed")
    /\ [](svPc \in {"connecting", "running", "backoff"} =>
            IF svCfg.VerifyRouting THEN svFetch # <<>> /\ ~PreflightFailed
            ELSE svFetch = <<>>)
    /\ [][PreflightFailed => UNCHANGED <<svPc, svTunnel, svWaits, svEvent>>]_vars

\* the proxy answers with the agent's own address: Run refused to start
C21_Witness ==
    /\ svFetch # <<>>
    /\ svFetch[1].err = "" /\ svFetch[2].err = ""
    /\ svFetch[1].ip = svFetch[2].ip
    /\ svPc = "terminated" /\ svResult = "proxy not routing traffic"
    /\ ~svCancelled

---------------------------------------------------------------------------
\* C22: a periodic check task posts its first CheckHealth failure to the
\* single-slot channel, once, and has then exited for good without another
\* check; the supervisor, while RUNNING, takes the posted failure by closing
\* the tunnel and going to BACKOFF (to TERMINATED when the context is
\* cancelled by then)
C22_HealthFailure ==
    /\ [](\A k \in Runs :
            /\ ckFails[k] <= 1 /\ ckPosts[k] = ckFails[k] /\ ckErrCh[k] <= 1
            /\ ckFails[k] = 1 => ckPc[k] = "exited")
    /\ [][\A k \in Runs : ckPc[k] = "exited" =>
            /\ ckPc'[k] = "exited"
            /\ UNCHANGED <<ckRuns[k], ckPosts[k], ckFails[k]>>]_vars
    /\ [](svPc = "running" /\ ckErrCh[svRun] = 1 => ENABLED HealthFails)
    /\ [][(svPc = "running" /\ svEvent' = "health failure") =>
            /\ ckErrCh[svRun] = 1 /\ ckErrCh'[svRun] = 0
            /\ svTunnel' = "closed"
            /\ svPc' = (IF svCancelled THEN "terminated" ELSE "backoff")]_vars

\* the second check of a task failed, and the supervisor backed off
C22_Witness ==
    /\ svPc = "backoff" /\ svEvent = "health failure" /\ svTunnel = "closed"
    /\ svRun \in Runs
    /\ ckRuns[svRun] = 2 /\ ckPosts[svRun] = 1 /\ ckPc[svRun] = "exited"
    /\ ckErrCh[svRun] = 0

---------------------------------------------------------------------------
\* C23: when SendRequest writes the frame the sink of its stream id is in
\* the registry; the relay's read task never takes a response frame off an
\* open link for a stream id with no sink; and when the write fails the sink
\* is out of the registry and closed (once), no sink is returned, and the
\* request is answered 502
C23_RegisterBeforeWrite ==
    /\ [][\A r \in Requests :
            (hPc[r] = "write" /\ r2a'[hTunnel[r]] # r2a[hTunnel[r]]) =>
               /\ LookupSink(tStreams[hTunnel[r]], hStream[r]) = [ok |-> TRUE, ch |-> r]
               /\ tStreams'[hTunnel[r]] = tStreams[hTunnel[r]]
               /\ hChan'[r] = r]_vars
    /\ [][\A l \in Links :
            (/\ rlPc[l] = "read" /\ rlAlive[l] /\ ~tDone[l]
             /\ a2r[l] # <<>> /\ a2r'[l] = Tail(a2r[l])
             /\ ~UnmarshalFrame(Head(a2r[l])).err
             /\ UnmarshalFrame(Head(a2r[l])).frame.Type
                   \in {TypeHTTPResponse, TypeBodyChunk, TypeStreamClose}) =>
               LookupSink(tStreams[l],
                          UnmarshalFrame(Head(a2r[l])).frame.StreamID).ok]_vars
    /\ [][\A r \in Requests :
            (hPc[r] = "write" /\ hPc'[r] = "done") =>
               /\ hStatus'[r] = 502 /\ hChan'[r] = 0
               /\ ~LookupSink(tStreams'[hTunnel[r]], hStream[r]).ok
               /\ chans'[r].closed /\ chans'[r].closes = 1
               /\ UNCHANGED r2a]_vars

\* the tunnel is closed between the registration and the write: the write
\* fails and the sink, closed by Close, is gone
C23_Witness ==
    \E r \in Requests :
        /\ hPc[r] = "done" /\ hErrLog[r] = "failed to send request"
        /\ chans[r].closed /\ hChan[r] = 0
        /\ tCloseCalls[hTunnel[r]] > 0

\* the request was written with its sink registered and answered in full
C23_WitnessAnswered ==
    \E r \in Requests :
        /\ hPc[r] = "done" /\ hStatus[r] = 200 /\ hChan[r] = r

---------------------------------------------------------------------------
(* Claims about the agent's end of a link                                  *)

\* the frames the agent's read task has taken off the link so far
FedRead(l) == SubSeq(fed, 1, Len(fed) - Len(r2a[l]))

\* the request parts for stream id sid among frames, in order
PartsOf(frames, sid) ==
    SelectSeq(frames, LAMBDA f : /\ f.StreamID = sid
                                 /\ f.Type \in {TypeHTTPRequest, TypeBodyChunk})

\* the position of the first STREAM_CLOSE for sid among frames, 0 if none
FirstClose(frames, sid) ==
    IF \E i \in 1..Len(frames) : frames[i] = StreamCloseFrame(sid)
    THEN CHOOSE i \in 1..Len(frames) :
            /\ frames[i] = StreamCloseFrame(sid)
            /\ \A j \in 1..(i - 1) : frames[j] # StreamCloseFrame(sid)
    ELSE 0

\* C24: on the agent the buffer of a stream id holds the payloads of the
\* HTTP_REQUEST and BODY_CHUNK frames read for it, in order, and exists from
\* the first of them; a STREAM_CLOSE for an id with a buffer removes the
\* buffer and starts exactly one task, with the concatenated bytes; a
\* STREAM_CLOSE for an id without a buffer starts nothing; the read task is
\* running after it has started a task, and its other reads leave the tasks
\* as they are
C24_Reassembly ==
    /\ [](\A l \in FedLinks, sid \in FedIds :
            LET rd == FedRead(l)
                c == FirstClose(rd, sid)
                parts == PartsOf(IF c = 0 THEN rd ELSE SubSeq(rd, 1, c - 1), sid)
            IN  IF c = 0
                THEN /\ (sid \in DOMAIN aStreams[l]) <=> (parts # <<>>)
                     /\ parts # <<>> => aStreams[l][sid] = PayloadCat(parts)
                     /\ sid \notin DOMAIN gotA
                     /\ sid \notin DOMAIN aTasks[l]
                ELSE /\ sid \notin DOMAIN aStreams[l]
                     /\ (sid \in DOMAIN gotA) <=> (parts # <<>>)
                     /\ parts # <<>> => gotA[sid] = PayloadCat(parts)
                     /\ parts = <<>> => sid \notin DOMAIN aTasks[l])
    /\ [][\A l \in FedLinks :
            gotA' # gotA =>
              \E sid \in FedIds :
                 /\ sid \in DOMAIN aStreams[l] /\ sid \notin DOMAIN aTasks[l]
                 /\ Head(r2a[l]) = MarshalFrame(StreamCloseFrame(sid)).data
                 /\ gotA' = MapPut(gotA, sid, aStreams[l][sid])
                 /\ aStreams'[l] = MapDel(aStreams[l], sid)
                 /\ DOMAIN aTasks'[l] = DOMAIN aTasks[l] \cup {sid}
                 /\ \A o \in DOMAIN aTasks[l] : aTasks'[l][o] = aTasks[l][o]]_vars
    /\ [][\A l \in FedLinks :
            /\ gotA' # gotA => aLoop'[l] /\ ~aDone'[l]
            /\ (r2a'[l] # r2a[l] /\ Len(fed') = Len(fed) /\ gotA' = gotA) =>
                  aTasks'[l] = aTasks[l]]_vars

\* a request in two parts was handed to its task, whose frames are all still
\* to write, and the read task has since read a STREAM_CLOSE for an id with
\* no buffer
C24_Witness ==
    \E l \in FedLinks, sid \in FedIds, o \in FedIds :
        /\ sid \in DOMAIN gotA /\ BLen(gotA[sid]) = MaxPayloadSize + 1
        /\ sid \in DOMAIN aTasks[l] /\ Len(aTasks[l][sid]) = 3
        /\ o # sid /\ o \notin DOMAIN gotA
        /\ FirstClose(FedRead(l), sid) > 0
        /\ FirstClose(FedRead(l), o) > FirstClose(FedRead(l), sid)

\* the frames the agent has written to the link for stream id sid, in order
Written(l, sid) ==
    SelectSeq([i \in 1..Len(a2r[l]) |-> UnmarshalFrame(a2r[l][i]).frame],
              LAMBDA f : f.StreamID = sid)

\* one HTTP_RESPONSE, then BODY_CHUNKs, then at most a STREAM_CLOSE, last
ResponseOrder(w) ==
    w # <<>> =>
       /\ w[1].Type = TypeHTTPResponse
       /\ \A i \in 2..Len(w) :
             \/ w[i].Type = TypeBodyChunk
             \/ i = Len(w) /\ w[i].Type = TypeStreamClose

\* C25: what the agent writes for a stream id is, in order, one HTTP_RESPONSE,
\* BODY_CHUNKs and one STREAM_CLOSE; it writes only for requests it has
\* dispatched, and nothing for a stream id once its task has ended, which it
\* does with the STREAM_CLOSE or with the first failed write, leaving the
\* STREAM_CLOSE unwritten
C25_ResponseOrder ==
    /\ [](\A l \in FedLinks, sid \in FedIds :
            LET w == Written(l, sid) IN
            /\ ResponseOrder(w)
            /\ w # <<>> => sid \in DOMAIN gotA
            /\ sid \in DOMAIN aTasks[l] =>
                  /\ w = <<>> \/ w[Len(w)].Type # TypeStreamClose
                  /\ aTasks[l][sid][Len(aTasks[l][sid])] = StreamCloseFrame(sid)
                  /\ ResponseOrder(w \o aTasks[l][sid])
            /\ (sid \in DOMAIN gotA /\ sid \notin DOMAIN aTasks[l]
                  /\ ~ConnDown(l)) =>
                  /\ w[Len(w)] = StreamCloseFrame(sid)
                  /\ PayloadCat(w) = sentA[sid])
    /\ [][\A l \in FedLinks, sid \in FedIds :
            /\ (sid \in DOMAIN gotA /\ sid \notin DOMAIN aTasks[l]) =>
                  /\ a2r'[l] = a2r[l] \/ Written(l, sid)' = Written(l, sid)
                  /\ sid \notin DOMAIN aTasks'[l]
            /\ (sid \in DOMAIN aTasks[l] /\ sid \notin DOMAIN aTasks'[l]
                  /\ a2r'[l] = a2r[l]) =>
                  /\ ConnDown(l)
                  /\ \A i \in 1..Len(Written(l, sid)) :
                        Written(l, sid)[i].Type # TypeStreamClose]_vars

\* a response of two frames and its STREAM_CLOSE are written
C25_Witness ==
    \E l \in FedLinks, sid \in FedIds :
        /\ Len(Written(l, sid)) = 3
        /\ Written(l, sid)[2].Type = TypeBodyChunk
        /\ Written(l, sid)[3] = StreamCloseFrame(sid)

\* the write of the second frame failed: the task is over, with the
\* HTTP_RESPONSE written and no STREAM_CLOSE
C25_WitnessStopped ==
    \E l \in FedLinks, sid \in FedIds :
        /\ sid \in DOMAIN gotA /\ BLen(gotA[sid]) = MaxPayloadSize + 1
        /\ sid \notin DOMAIN aTasks[l]
        /\ Len(Written(l, sid)) = 1
        /\ netFailed[l]

---------------------------------------------------------------------------
(* Claims about fragmentation                                              *)

\* the frames a payload of n bytes takes
FramesFor(n) ==
    IF n = 0 THEN 1 ELSE (n + MaxPayloadSize - 1) \div MaxPayloadSize

\* C26: the frames _chunk_payload and _response_frames return all carry the
\* given stream id and at most 65,536 payload bytes each; the first has the
\* first-frame type (HTTP_REQUEST on the relay, HTTP_RESPONSE on the agent),
\* the others are BODY_CHUNKs; there is at least one frame, also for an empty
\* payload, and no more than the payload needs; the payloads of the frames in
\* order make up the input
C26_Fragmentation ==
    fgIn.side # "none" =>
       /\ Len(fgOut) >= 1
       /\ Len(fgOut) = FramesFor(BLen(fgIn.payload))
       /\ \A i \in 1..Len(fgOut) :
             /\ fgOut[i].StreamID = fgIn.streamID
             /\ BLen(fgOut[i].Payload) <= 65536
             /\ fgOut[i].Type =
                   IF i > 1 THEN TypeBodyChunk
                   ELSE IF fgIn.side = "relay" THEN TypeHTTPRequest
                   ELSE TypeHTTPResponse
       /\ PayloadCat(fgOut) = fgIn.payload

\* 200,000 bytes of changing content are split into four frames on the relay
C26_Witness ==
    /\ fgIn.side = "relay"
    /\ fgIn.payload = MarkedFrom(MaxFragLen, 1)
    /\ Len(fgOut) = 4
    /\ BLen(fgOut[4].Payload) = MaxFragLen - 3 * MaxPayloadSize

\* the empty response is one empty HTTP_RESPONSE frame
C26_WitnessEmpty ==
    /\ fgIn.side = "agent"
    /\ fgIn.payload = <<>>
    /\ Len(fgOut) = 1

\* the handling of the request bytes fails at the backend in use
HandlingFails(data) == backend = "down" \/ ~ValidJSON(data)

\* some frame is written for one stream id, or the task of one ends
TaskStep(l) == aTasks'[l] # aTasks[l] /\ gotA' = gotA

\* C27: a request whose handling fails is answered with the tunnelled 502 on
\* its stream id; the steps of a request task, failed writes included, latch
\* no done, stop no read task and leave the buffers and the tasks of the
\* other stream ids as they are; the agent link is closed only by its read
\* task, by its ping task after a failed write, or by the supervisor
C27_FailureContained ==
    /\ [](\A l \in FedLinks, sid \in FedIds :
            (sid \in DOMAIN gotA /\ HandlingFails(gotA[sid])) =>
               /\ sid \in DOMAIN aTasks[l] =>
                     Written(l, sid) \o aTasks[l][sid] =
                        <<[Type |-> TypeHTTPResponse, StreamID |-> sid,
                           Payload |-> _error_response],
                          StreamCloseFrame(sid)>>
               /\ (sid \notin DOMAIN aTasks[l] /\ ~ConnDown(l)) =>
                     Written(l, sid) =
                        <<[Type |-> TypeHTTPResponse, StreamID |-> sid,
                           Payload |-> _error_response],
                          StreamCloseFrame(sid)>>)
    /\ [][\A l \in FedLinks :
            /\ TaskStep(l) =>
                  /\ UNCHANGED <<aDone, aLoop, aStreams, netFailed, r2a>>
                  /\ \E sid \in DOMAIN aTasks[l] :
                        \A o \in DOMAIN aTasks[l] \ {sid} :
                           /\ o \in DOMAIN aTasks'[l]
                           /\ aTasks'[l][o] = aTasks[l][o]
                           /\ Written(l, o)' = Written(l, o)
            /\ gotA' # gotA => UNCHANGED <<aDone, aLoop, netFailed>>
            /\ (aDone'[l] /\ ~aDone[l]) =>
                  /\ aTasks'[l] = aTasks[l] /\ a2r'[l] = a2r[l]
                  /\ \/ aLoop[l] /\ ~aLoop'[l]
                     \/ ConnDown(l)
                     \/ UNCHANGED <<aLoop, aStreams, netVars>>]_vars

\* C27 as stated: the agent link is closed only by the read task and by the
\* ping task
C27_OnlyReadAndPingClose ==
    [][\A l \in FedLinks :
         (aDone'[l] /\ ~aDone[l]) => (aLoop[l] /\ ~aLoop'[l]) \/ ConnDown(l)]_vars

\* with the backend down, a well-formed request got its 502 and STREAM_CLOSE
\* while the link stays open and the other stream keeps its buffer
C27_Witness ==
    \E l \in FedLinks, sid \in FedIds, o \in FedIds :
        /\ backend = "down"
        /\ sid \in DOMAIN gotA /\ ValidJSON(gotA[sid])
        /\ Len(Written(l, sid)) = 2
        /\ Written(l, sid)[1].Payload = _error_response
        /\ ~aDone[l] /\ aLoop[l] /\ ~netFailed[l]
        /\ o \in DOMAIN aStreams[l]

\* a write of a response frame failed and the agent tunnel is still open
C27_WitnessWriteFailed ==
    \E l \in FedLinks, sid \in FedIds :
        /\ sid \in DOMAIN gotA /\ sid \notin DOMAIN aTasks[l]
        /\ Written(l, sid) = <<>>
        /\ netFailed[l] /\ ~aDone[l]

---------------------------------------------------------------------------
RECURSIVE DelayAt(_)
\* the delay of the k-th wait as the configuration alone gives it
DelayAt(k) ==
    IF k = 1 THEN svCfg.ReconnectDelay
    ELSE NextDelay(DelayAt(k - 1), svCfg.MaxReconnectDelay)

\* C28: the k-th wait of the supervisor is the delay that k and the two
\* configured delays give, whether or not tunnels connected in between
C28_NoReset ==
    \A k \in 1..Len(svWaits) : svWaits[k] = DelayAt(k)

\* the second wait follows a tunnel that had connected, and is longer than
\* the first
C28_Witness ==
    /\ svPc = "backoff"
    /\ svEvent = "tunnel error"
    /\ Len(svWaits) = 2
    /\ I64Gt(svWaits[2], svWaits[1])
    /\ svWaits[1] = svCfg.ReconnectDelay

---------------------------------------------------------------------------
\* C29: whichever way the supervisor leaves RUNNING, the tunnel is closed and
\* the stop function of the check task of that tunnel has been called, once;
\* no stop function is called twice and no tunnel is open outside RUNNING;
\* and a check task that was told to stop terminates
C29_ScopedRelease ==
    /\ [][(svPc = "running" /\ svPc' # "running") =>
            /\ svTunnel' = "closed"
            /\ svEvent' \in {"tunnel error", "health failure", "cancelled"}
            /\ svCfg.Recheck =>
                  /\ ckDone'[svRun] /\ ckStops'[svRun] = 1
                  /\ ckStops[svRun] = 0]_vars
    /\ [](svTunnel = "open" <=> svPc = "running")
    /\ [](\A k \in Runs :
            /\ ckStops[k] <= 1
            /\ (ckPc[k] # "none" /\ (k < svRun \/ svPc # "running")) =>
                  ckDone[k])
    /\ \A k \in Runs : ckDone[k] ~> ckPc[k] = "exited"

\* the supervisor left RUNNING on a cancellation while a check was in
\* progress, and the task has ended since
C29_Witness ==
    /\ svPc = "terminated"
    /\ svEvent = "cancelled"
    /\ svTunnel = "closed"
    /\ svRun = 1
    /\ ckRuns[1] = 1 /\ ckFails[1] = 0
    /\ ckStops[1] = 1
    /\ ckPc[1] = "exited"

---------------------------------------------------------------------------
InPool(l) == \E i \in 1..Len(pool) : pool[i] = l

\* the relay's read task of link l takes a message that is no frame
ReadsBadMessage(l) ==
    /\ rlPc[l] = "read" /\ rlAlive[l] /\ ~tDone[l] /\ ~netFailed[l]
    /\ a2r[l] # <<>> /\ a2r'[l] = Tail(a2r[l])
    /\ ReadFrame(Head(a2r[l])).err

---------------------------------------------------------------------------
\* C31: the sink the relay's read task holds between the registry lookup and
\* the enqueue is not closed by another task, and the read task never sends
\* on a closed sink
C31_NoSendOnClosedSink ==
    /\ ~relayPanic
    /\ \A l \in Links :
          rlPc[l] = "send" => ~chans[rlHeld[l].ch].closed

---------------------------------------------------------------------------
\* C32: the relay's read task is never parked on the sink of a request that
\* has ended with a timeout, so the frames that follow on the link are read
C32_TimeoutNeverBlocks ==
    \A l \in Links, r \in Requests :
        (rlPc[l] = "blocked" /\ rlHeld[l].ch = r) =>
           ~(hPc[r] = "done" /\ hStatus[r] = 504)

---------------------------------------------------------------------------
\* C33: no call of NextStreamID returns 0, the stream id of PING and PONG
C33_StreamIdNeverZero ==
    \A k \in 1..Len(idSeq) : idSeq[k].id # <<0, 0>>

---------------------------------------------------------------------------
\* C34: a request that ServeHTTP has taken up is answered, with the tunnelled
\* response, 500, 502 or 504, and its answer is never replaced or repeated
C34_ExactlyOneResponse ==
    /\ [](\A r \in Requests :
            hPc[r] = "done" => hStatus[r] \in {200, 500, 502, 504})
    /\ [][\A r \in Requests :
            hPc[r] = "done" =>
               hPc'[r] = "done" /\ hStatus'[r] = hStatus[r]
                                /\ hBody'[r] = hBody[r]]_vars
    /\ \A r \in Requests : hPc[r] # "idle" ~> hPc[r] = "done"

---------------------------------------------------------------------------
\* C35: the supervisor has at most one open tunnel: the one of the current
\* RUNNING episode; whenever it connects, waits or has returned, every
\* tunnel it connected before is closed
C35_OneTunnel ==
    /\ Cardinality(svOpen) <= 1
    /\ svOpen \subseteq {svRun}
    /\ svPc # "running" => svOpen = {}

\* the second tunnel is open, the first closed
C35_Witness ==
    /\ svPc = "running"
    /\ svRun = 2
    /\ svOpen = {2}

-----------------------------------------------------------------------------
\* C36: under any interleaving of Get with Add and Remove, a Get call never
\* indexes outside the list; it returns the error exactly when the list is
\* empty while it holds the lock, and otherwise returns a tunnel that is in
\* the list at that moment
C36_GetInsideList ==
    /\ \A k \in 1..Len(pgGot.last) :
          LET o == pgGot.last[k] IN
          /\ o.inRange
          /\ o.err <=> o.list = <<>>
          /\ ~o.err => /\ o.idx < Len(o.list)
                       /\ o.t = o.list[o.idx + 1]
                       /\ o.t \in pgAdded
    \* the list does not change while a Get call holds the lock
    /\ \A g \in PoolGetters : pgPc[g].pc = "index" => Len(pgTunnels) = pgPc[g].n

\* a Get call returned the third tunnel added, from a list of two after a
\* Remove
C36_Witness ==
    /\ pgGot.last # <<>>
    /\ ~pgGot.last[1].err
    /\ Len(pgGot.last[1].list) = 2
    /\ Cardinality(pgAdded) = 3
    /\ pgGot.last[1].t = 3

\* a Get call found the list empty after the one tunnel added was removed
C36_WitnessEmpty ==
    /\ pgGot.last # <<>>
    /\ pgGot.last[1].err
    /\ pgAdded # {}
    /\ pgGot.calls > 1

-----------------------------------------------------------------------------
\* the calls of SendRequest that have not returned
SendsInProgress == {c \in CloseCallers : clCalls[c].op = "SendRequest" /\ clCalls[c].pc = "write"}

\* C37: a SendFrame or SendRequest call that starts after Close has
\* completed returns an error; when Close has completed and no SendRequest
\* call is in progress, the stream registry is empty
C37_ClosedLinkRefuses ==
    /\ \A c \in CloseCallers :
          (clCalls[c].op \in {"SendRequest", "SendFrame"} /\ clCalls[c].late
              /\ clCalls[c].ret # "none") => clCalls[c].ret = "error"
    /\ (clOnce = "finished" /\ SendsInProgress = {}) => clStreams = EmptyMap

\* a SendRequest that started after Close had completed registered its
\* sink, failed to write and returned, while an earlier one had written
\* before Close
C37_Witness ==
    /\ clOnce = "finished"
    /\ SendsInProgress = {}
    /\ \E c \in CloseCallers :
          /\ clCalls[c].op = "SendRequest" /\ clCalls[c].late /\ clCalls[c].ret = "error"
    /\ \E c \in CloseCallers :
          /\ clCalls[c].op = "SendRequest" /\ ~clCalls[c].late /\ clCalls[c].ret = "ok"

\* a SendRequest that registered before Close completed was swept, and
\* Close has completed while it has not yet returned
C37_WitnessAround ==
    /\ clOnce = "finished"
    /\ \E c \in SendsInProgress : ~clCalls[c].late
    /\ clStreams = EmptyMap

====
